---------------------------- MODULE Spec2Model ----------------------------
(***************************************************************************)
(* Error Replay: the circular history buffer, the recorder controller and  *)
(* the event sources that feed it.                                          *)
(*                                                                          *)
(* Specifications of this module:                                           *)
(*   SpecBuffer  a CircularBuffer<T> on its own, driven by add, clear,      *)
(*               getAll and getLast, with distinct integer records.         *)
(*   Spec        one ErrorReplay controller in a browser: start, stop,      *)
(*               capture, clear, cleanup and the host events (clicks,       *)
(*               inputs, navigation, fetch/XHR, console, uncaught errors).  *)
(*   SpecInput   the same controller with input tracking only, on a page of *)
(*               form fields: the three input sub-detectors and the         *)
(*               sanitizer.                                                 *)
(*   SpecReport  the same controller tracking clicks and the console, with  *)
(*               the args arrays of console records held by address and the *)
(*               last returned report kept.                                 *)
(*   SpecFunctions  formatRelativeTime, capture's normalisation of its      *)
(*               argument and the two constructors, applied to bounded      *)
(*               sets of inputs.                                            *)
(*   SpecDetectors  the detector factories called directly, their           *)
(*               unregister callbacks invoked once and again.               *)
(*   SpecSanitizer  shouldSanitize over the fields of the form page and     *)
(*               lists of custom patterns.                                  *)
(*   SpecPreview  getSafeInputValue as the text detector calls it, over     *)
(*               values around the preview length.                          *)
(*   SpecConsole  captureConsole of the console detector over argument      *)
(*               lists, feeding a buffer.                                   *)
(*   SpecClock   the controller tracking clicks and the network, with       *)
(*               several fetch calls in flight that settle in any order.    *)
(*   SpecIdentifier  getElementIdentifier over elements with every          *)
(*               combination of the attributes it looks at.                 *)
(*   SpecPath    getCSSPath over elements at several depths under the body, *)
(*               with and without ids and same-tag siblings on the way up.  *)
(*   SpecUrl     the fetch wrapper of the network detector over URLs with   *)
(*               and without origin, query parameters and fragment,         *)
(*               feeding a buffer.                                          *)
(*   SpecPair    two ErrorReplay controllers, A and B, in one browser: the  *)
(*               variables of the controller hold one value per controller, *)
(*               a global function is the list of the wrappers stacked on   *)
(*               the native one.                                            *)
(* Every specification constrains all variables: the ones it does not use   *)
(* keep their initial value.                                                *)
(* A record constructor lists its fields in the order in which the field   *)
(* names first occur in this module, which need not be the order of the     *)
(* properties in the source object.                                         *)
(***************************************************************************)
EXTENDS Integers, Sequences, FiniteSets, TLC

VARIABLES
    \* CircularBuffer (circular-buffer.ts) and the calls made on it
    buffer,            \* the CircularBuffer object: buffer (slots), head, tail, count, maxSize
    ret,               \* the last public call and the value it returned
    \* ghosts
    ctorCap,           \* the capacity the buffer was constructed with
    hist,              \* SpecBuffer: the records added since construction or the last
                       \* clear(); Spec, SpecInput: for each buffered record, oldest
                       \* first, the field and raw value it was built from
    nAdded,            \* the number of add() calls made so far
    \* ErrorReplay (index.ts)
    config,            \* the configuration the controller was constructed with
    isRunning,
    cleanupFunctions,  \* the unregister callbacks start() collected, in push order
    errorHandler,      \* TRUE when this.errorHandler is not null
    rejectionHandler,  \* TRUE when this.rejectionHandler is not null
    \* the browser
    patched,           \* per global function: how many wrappers are stacked on the native one
    listeners,         \* per event: how many handlers of this controller are registered
    pendingFetch,      \* wrapped fetch calls awaiting originalFetch: the wrappers of each
    xhr,               \* one XMLHttpRequest object
    location,          \* window.location (path and query)
    currentPath,       \* the navigation detector's currentPath
    now,               \* Date.now()
    document,          \* the form fields of the page
    previousValues,    \* the live text detector's previousValues, per field id
    heap,              \* the args arrays of console records, by address: a record
                       \* and its copies hold the address, not the array
    \* ghosts of the reports
    lastActions,       \* the actions of the last report, relativeTime removed; forgotten
                       \* at the next add()
    capturedSinceAdd,  \* capture() has been called, and add() not since
    capturesSinceChange \* capture() calls since the last add() or clear(), up to 2

bufVars == <<buffer, ret, ctorCap, hist, nAdded>>
ctlVars == <<config, isRunning, cleanupFunctions, errorHandler, rejectionHandler>>
envVars == <<patched, listeners, pendingFetch, xhr, location, currentPath, now>>
domVars == <<document, previousValues, heap>>
repVars == <<lastActions, capturedSinceAdd, capturesSinceChange>>

vars == <<buffer, ret, ctorCap, hist, nAdded,
          config, isRunning, cleanupFunctions, errorHandler, rejectionHandler,
          patched, listeners, pendingFetch, xhr, location, currentPath, now,
          document, previousValues, heap,
          lastActions, capturedSinceAdd, capturesSinceChange>>

(***************************************************************************)
(* Bounds of the model.                                                     *)
(***************************************************************************)
MaxCap == 3        \* SpecBuffer: capacities 1..MaxCap
MaxDetectors == 3  \* SpecDetectors: detectors created
MaxArgs == 6        \* SpecConsole: arguments of one console call
MaxArgLength == 300 \* SpecConsole: the longest argument
MaxInFlight == 2    \* SpecClock: fetch calls in flight at once
MaxCalls == 4       \* SpecPair: start() and stop() calls over one behaviour
MaxDepth == 7       \* SpecPath: levels from an element up to the body
MaxParams == 2      \* SpecUrl: query parameters of one URL
MaxValueLength == 60  \* SpecPreview: the longest field value
MaxPatterns == 3   \* SpecSanitizer: custom sanitize patterns in one list
MaxItems == 5      \* SpecBuffer: records added over one behaviour
MaxAdds == 2       \* Spec: add() calls over one behaviour
MaxTicks == 1      \* Spec: clock steps over one behaviour
MaxPending == 1    \* Spec: fetch calls in flight at once
TickMs == 61000    \* Spec: milliseconds per clock step

(***************************************************************************)
(* circular-buffer.ts                                                       *)
(***************************************************************************)
\* An empty slot of `new Array(maxSize)` reads as undefined; a slot that holds
\* item x is <<x>>.
undefined == <<>>

Min(a, b) == IF a < b THEN a ELSE b
Max(a, b) == IF a > b THEN a ELSE b

\* A call that ended by throwing.
Thrown(kind) == [threw |-> kind]
HasThrown(result) == "threw" \in DOMAIN result

\* A constructor that accepts 0.
ConstructorThrows_AcceptsZero(maxSize) == maxSize < 0

\* constructor(maxSize): throws for maxSize < 1.
ConstructorThrows(maxSize) == maxSize < 1

CircularBuffer(maxSize) ==
    [buffer  |-> [i \in 0..(maxSize - 1) |-> undefined],
     maxSize |-> maxSize,
     head    |-> 0,
     tail    |-> 0,
     count   |-> 0]

\* new CircularBuffer(maxSize): the instance, or the Error thrown; without an
\* argument maxSize is 50.
DefaultMaxSize == 50
NewCircularBuffer(maxSize) ==
    IF ConstructorThrows(maxSize) THEN Thrown("Error") ELSE CircularBuffer(maxSize)

\* add() that forgets to move tail when it overwrites the oldest record.
add_TailStays(b, item) ==
    [b EXCEPT !.buffer[b.head] = <<item>>,
              !.head  = (b.head + 1) % b.maxSize,
              !.count = IF b.count < b.maxSize THEN b.count + 1 ELSE b.count]

\* add() that counts every record, full or not.
add_CountsAll(b, item) ==
    [b EXCEPT !.buffer[b.head] = <<item>>,
              !.head  = (b.head + 1) % b.maxSize,
              !.count = b.count + 1,
              !.tail  = IF b.count < b.maxSize THEN b.tail
                        ELSE (b.tail + 1) % b.maxSize]

\* add() that moves tail on every call.
add_TailAlways(b, item) ==
    [b EXCEPT !.buffer[b.head] = <<item>>,
              !.head  = (b.head + 1) % b.maxSize,
              !.count = IF b.count < b.maxSize THEN b.count + 1 ELSE b.count,
              !.tail  = (b.tail + 1) % b.maxSize]

add(b, item) ==
    LET full == ~(b.count < b.maxSize) IN
    [b EXCEPT !.buffer[b.head] = <<item>>,
              !.head  = (b.head + 1) % b.maxSize,
              !.count = IF full THEN b.count ELSE b.count + 1,
              !.tail  = IF full THEN (b.tail + 1) % b.maxSize ELSE b.tail]

\* The loop of getAll(): i counts the slots visited, index walks from tail.
RECURSIVE getAllLoop(_, _, _, _)
getAllLoop(b, i, index, result) ==
    IF i < b.count
    THEN getAllLoop(b, i + 1, (index + 1) % b.maxSize,
                    IF b.buffer[index] # undefined
                    THEN result \o b.buffer[index]
                    ELSE result)
    ELSE result

getAll(b) ==
    IF b.count = 0 THEN <<>> ELSE getAllLoop(b, 0, b.tail, <<>>)

\* Array.prototype.slice(start) with one argument: a negative start counts
\* from the end, and -0 is 0.
slice(a, start) ==
    LET len  == Len(a)
        from == IF start < 0 THEN Max(len + start, 0) ELSE Min(start, len)
    IN SubSeq(a, from + 1, len)

getLast(b, n) == slice(getAll(b), 0 - n)

\* clear() that leaves head where it was.
clear_KeepsHead(b) ==
    [b EXCEPT !.buffer = [i \in 0..(b.maxSize - 1) |-> undefined],
              !.tail = 0, !.count = 0]

clear(b) ==
    [b EXCEPT !.buffer = [i \in 0..(b.maxSize - 1) |-> undefined],
              !.head = 0, !.tail = 0, !.count = 0]

size(b) == b.count
isEmpty(b) == b.count = 0
isFull(b) == b.count = b.maxSize
capacity(b) == b.maxSize

(***************************************************************************)
(* The browser: global functions that detectors wrap, and event listeners.  *)
(***************************************************************************)
Globals == {"fetch", "xhrOpen", "xhrSend", "pushState", "replaceState",
            "consoleError", "consoleWarn"}
Events == {"click", "touchstart", "change.text", "blur.text", "change.checkbox",
           "change.select", "popstate", "hashchange", "error",
           "unhandledrejection"}

Paths == {"/a", "/b"}
Hashes == {"", "#h"}

\* window.location.pathname + search is one of Paths; a path that may carry a
\* fragment is <<path, hash>>, and <<path, "">> without one.
PathOf(loc) == <<loc, "">>
PathWithHashOf(loc, hash) == <<loc, hash>>

\* A browser state g is [patched, listeners]; a detector factory maps g to
\* the state after registration, and its unregister callback is a record
\* naming the detector and the originals it captured.
AddListeners(g, evs) ==
    [g EXCEPT !.listeners = [e \in Events |-> IF e \in evs THEN @[e] + 1 ELSE @[e]]]
RemoveListeners(g, evs) ==
    [g EXCEPT !.listeners =
        [e \in Events |-> IF e \in evs /\ @[e] > 0 THEN @[e] - 1 ELSE @[e]]]
Wrap(g, fns) ==
    [g EXCEPT !.patched = [f \in Globals |-> IF f \in fns THEN @[f] + 1 ELSE @[f]]]

\* click-detector.ts
createClickDetector(g) == AddListeners(g, {"click", "touchstart"})
ClickCleanup == [kind |-> "click"]

\* input-detector.ts (facade)
TrackOf(trackInputs) ==
    [text     |-> ~(trackInputs.isObject /\ trackInputs.text = FALSE),
     checkbox |-> ~(trackInputs.isObject /\ trackInputs.checkbox = FALSE),
     select   |-> ~(trackInputs.isObject /\ trackInputs.select = FALSE)]
InputEventsOf(track) ==
    (IF track.text THEN {"change.text", "blur.text"} ELSE {})
    \cup (IF track.checkbox THEN {"change.checkbox"} ELSE {})
    \cup (IF track.select THEN {"change.select"} ELSE {})
createInputDetector(g, trackInputs) ==
    AddListeners(g, InputEventsOf(TrackOf(trackInputs)))
InputCleanup(trackInputs) == [kind |-> "input", track |-> TrackOf(trackInputs)]

\* navigation-detector.ts
createNavigationDetector(g) ==
    AddListeners(Wrap(g, {"pushState", "replaceState"}), {"popstate", "hashchange"})
NavigationCleanup(g) ==
    [kind |-> "navigation",
     originalPushState |-> g.patched["pushState"],
     originalReplaceState |-> g.patched["replaceState"]]

\* network-detector.ts
createNetworkDetector(g) == Wrap(g, {"fetch", "xhrOpen", "xhrSend"})
NetworkCleanup(g) ==
    [kind |-> "network",
     originalFetch |-> g.patched["fetch"],
     originalXHROpen |-> g.patched["xhrOpen"],
     originalXHRSend |-> g.patched["xhrSend"]]

\* console-detector.ts
createConsoleDetector(g) == Wrap(g, {"consoleError", "consoleWarn"})
ConsoleCleanup(g) ==
    [kind |-> "console",
     originalError |-> g.patched["consoleError"],
     originalWarn |-> g.patched["consoleWarn"]]

\* What one unregister callback does to the browser.
CleanupEffect(g, c) ==
    CASE c.kind = "click" -> RemoveListeners(g, {"click", "touchstart"})
      [] c.kind = "input" -> RemoveListeners(g, InputEventsOf(c.track))
      [] c.kind = "navigation" ->
            RemoveListeners(
                [g EXCEPT !.patched["pushState"] = c.originalPushState,
                          !.patched["replaceState"] = c.originalReplaceState],
                {"popstate", "hashchange"})
      [] c.kind = "network" ->
            [g EXCEPT !.patched["fetch"] = c.originalFetch,
                      !.patched["xhrOpen"] = c.originalXHROpen,
                      !.patched["xhrSend"] = c.originalXHRSend]
      [] c.kind = "console" ->
            [g EXCEPT !.patched["consoleError"] = c.originalError,
                      !.patched["consoleWarn"] = c.originalWarn]

\* Invoking one unregister callback; g.calls lists the callbacks invoked so
\* far, in order.
RunCleanup(g, c) == [CleanupEffect(g, c) EXCEPT !.calls = Append(@, c)]

\* A loop that invokes every callback twice.
RECURSIVE RunCleanups_Twice(_, _)
RunCleanups_Twice(g, cs) ==
    IF cs = <<>> THEN g
    ELSE RunCleanups_Twice(RunCleanup(RunCleanup(g, Head(cs)), Head(cs)), Tail(cs))

\* for (const cleanup of this.cleanupFunctions) cleanup()
RECURSIVE RunCleanups(_, _)
RunCleanups(g, cs) ==
    IF cs = <<>> THEN g ELSE RunCleanups(RunCleanup(g, Head(cs)), Tail(cs))

(***************************************************************************)
(* Text.  A string whose characters the code looks at is a sequence of      *)
(* one-character strings; a string it only compares is a string.            *)
(***************************************************************************)
Digits == {"0", "1", "2", "3", "4", "5", "6", "7", "8", "9"}
LowerCase == <<"a", "b", "c", "d", "e", "f", "g", "h", "i", "j", "k", "l",
    "m", "n", "o", "p", "q", "r", "s", "t", "u", "v", "w", "x", "y", "z">>
UpperCase == <<"A", "B", "C", "D", "E", "F", "G", "H", "I", "J", "K", "L",
    "M", "N", "O", "P", "Q", "R", "S", "T", "U", "V", "W", "X", "Y", "Z">>

\* \w of a regular expression
IsWordChar(c) ==
    \/ c \in Digits
    \/ c = "_"
    \/ \E i \in 1..Len(LowerCase) : c = LowerCase[i] \/ c = UpperCase[i]

\* the i flag of a regular expression
ToLower(c) ==
    IF \E i \in 1..Len(UpperCase) : c = UpperCase[i]
    THEN LowerCase[CHOOSE i \in 1..Len(UpperCase) : c = UpperCase[i]]
    ELSE c
LowerOf(s) == [i \in 1..Len(s) |-> ToLower(s[i])]

\* sub occurs in s at position p; sub occurs in s
HasAt(s, p, sub) ==
    /\ p + Len(sub) - 1 <= Len(s)
    /\ \A i \in 1..Len(sub) : s[p + i - 1] = sub[i]
Contains(s, sub) == \E p \in 1..(Len(s) + 1) : HasAt(s, p, sub)

\* \b at position p of s, the gap in front of s[p] (p = Len(s) + 1: the end)
AtBoundary(s, p) ==
    LET before == p > 1 /\ IsWordChar(s[p - 1])
        after  == p <= Len(s) /\ IsWordChar(s[p])
    IN before # after

\* \d{n} at position p
AllDigits(s, p, n) ==
    /\ p + n - 1 <= Len(s)
    /\ \A i \in p..(p + n - 1) : s[i] \in Digits

(***************************************************************************)
(* sanitizer.ts                                                             *)
(***************************************************************************)
SENSITIVE_INPUT_TYPES == {"password", "tel", "cc-number", "cc-csc", "cc-exp"}

SENSITIVE_AUTOCOMPLETE_VALUES ==
    {"cc-number", "cc-csc", "cc-exp", "cc-exp-month", "cc-exp-year", "cc-type",
     "new-password", "current-password"}

\* /left/i, or /left[_-]?right/i when right is not empty
SENSITIVE_NAME_PATTERNS ==
    << [left |-> <<"p", "a", "s", "s", "w", "o", "r", "d">>, right |-> <<>>],
       [left |-> <<"p", "a", "s", "s", "w", "d">>, right |-> <<>>],
       [left |-> <<"s", "e", "c", "r", "e", "t">>, right |-> <<>>],
       [left |-> <<"t", "o", "k", "e", "n">>, right |-> <<>>],
       [left |-> <<"a", "p", "i">>, right |-> <<"k", "e", "y">>],
       [left |-> <<"c", "r", "e", "d", "i", "t">>, right |-> <<"c", "a", "r", "d">>],
       [left |-> <<"c", "a", "r", "d">>, right |-> <<"n", "u", "m", "b", "e", "r">>],
       [left |-> <<"c", "v", "v">>, right |-> <<>>],
       [left |-> <<"c", "v", "c">>, right |-> <<>>],
       [left |-> <<"c", "s", "c">>, right |-> <<>>],
       [left |-> <<"s", "s", "n">>, right |-> <<>>],
       [left |-> <<"s", "o", "c", "i", "a", "l">>, right |-> <<"s", "e",
           "c", "u", "r", "i", "t", "y">>],
       [left |-> <<"p", "i", "n">>, right |-> <<>>] >>

\* pattern.test(name) for one of SENSITIVE_NAME_PATTERNS
NamePatternTest(pattern, name) ==
    IF pattern.right = <<>>
    THEN Contains(LowerOf(name), pattern.left)
    ELSE \E sep \in {<<>>, <<"_">>, <<"-">>} :
            Contains(LowerOf(name), pattern.left \o sep \o pattern.right)

\* The positions a match can have reached after one more (?:\d[ -]*?) group,
\* started at one of the positions ps.
AfterGroup(s, ps) ==
    { q \in 2..(Len(s) + 1) :
        \E p \in ps :
           /\ p < q
           /\ s[p] \in Digits
           /\ \A i \in (p + 1)..(q - 1) : s[i] \in {" ", "-"} }

RECURSIVE AfterGroups(_, _, _)
AfterGroups(s, ps, k) ==
    IF k = 0 THEN ps ELSE AfterGroups(s, AfterGroup(s, ps), k - 1)

\* CREDIT_CARD_PATTERN.test(value): /\b(?:\d[ -]*?){13,16}\b/
CREDIT_CARD_PATTERN(value) ==
    \E k \in 13..16 :
       \E q \in AfterGroups(value, {p \in 1..Len(value) : AtBoundary(value, p)}, k) :
          AtBoundary(value, q)

\* SSN_PATTERN.test(value): /\b\d{3}[-.]?\d{2}[-.]?\d{4}\b/
SSN_PATTERN(value) ==
    \E p \in 1..Len(value), a \in {0, 1}, b \in {0, 1} :
       /\ AtBoundary(value, p)
       /\ AllDigits(value, p, 3)
       /\ a = 1 => (p + 3 <= Len(value) /\ value[p + 3] \in {"-", "."})
       /\ AllDigits(value, p + 3 + a, 2)
       /\ b = 1 => (p + 5 + a <= Len(value) /\ value[p + 5 + a] \in {"-", "."})
       /\ AllDigits(value, p + 5 + a + b, 4)
       /\ AtBoundary(value, p + 9 + a + b)

containsSensitiveData(value) ==
    IF value = <<>> THEN FALSE
    ELSE CREDIT_CARD_PATTERN(value) \/ SSN_PATTERN(value)

\* A form field is [tag, type, id, name, autocomplete, className]: tag, type
\* and autocomplete are strings ("" for no autocomplete attribute), the
\* others sequences of characters (<<>> when absent).  The fields of the
\* pages below carry no data-* attribute, no aria-label and a single class.

\* A CSS identifier, as far as the patterns below need it.
IsIdentifier(s) ==
    /\ s # <<>>
    /\ s[1] \notin Digits
    /\ \A i \in 1..Len(s) : IsWordChar(s[i]) \/ s[i] = "-"

\* element.matches(selector) throws: of the selectors that start with '.',
\* '#' or '[', the model knows "#id", ".class" and "[attribute]"; the
\* pattern lists below hold no other well-formed selector.
MatchesThrows(selector) ==
    IF selector[1] = "["
    THEN ~(/\ Len(selector) > 2
           /\ selector[Len(selector)] = "]"
           /\ IsIdentifier(SubSeq(selector, 2, Len(selector) - 1)))
    ELSE ~IsIdentifier(Tail(selector))

HasAttribute(element, attribute) ==
    CASE attribute = <<"i", "d">> -> element.id # <<>>
      [] attribute = <<"n", "a", "m", "e">> -> element.name # <<>>
      [] attribute = <<"c", "l", "a", "s", "s">> -> element.className # <<>>
      [] attribute = <<"a", "u", "t", "o", "c", "o", "m", "p", "l", "e",
          "t", "e">> -> element.autocomplete # ""
      [] attribute = <<"t", "y", "p", "e">> -> element.tag = "input"
      [] OTHER -> FALSE

matches(element, selector) ==
    CASE selector[1] = "#" -> Tail(selector) = element.id
      [] selector[1] = "." -> Tail(selector) = element.className
      [] selector[1] = "[" ->
            HasAttribute(element, SubSeq(selector, 2, Len(selector) - 1))

\* new RegExp(selector, 'i') throws: the model knows the patterns that are
\* plain text; the pattern lists below hold no other well-formed pattern.
RegExpThrows(selector) ==
    \E i \in 1..Len(selector) : ~(IsWordChar(selector[i]) \/ selector[i] = "-")

\* One round of the customPatterns loop: this pattern makes shouldSanitize
\* return true.  A pattern that throws is skipped.
CustomPatternHits(element, name, selector) ==
    IF selector # <<>> /\ selector[1] \in {".", "#", "["}
    THEN ~MatchesThrows(selector) /\ matches(element, selector)
    ELSE /\ ~RegExpThrows(selector)
         /\ \/ Contains(LowerOf(name), LowerOf(selector))
            \/ Contains(LowerOf(element.className), LowerOf(selector))

\* The pattern makes its round of the loop throw: element.matches for a
\* pattern taken as a selector, new RegExp for the others.
Malformed(selector) ==
    IF selector # <<>> /\ selector[1] \in {".", "#", "["}
    THEN MatchesThrows(selector)
    ELSE RegExpThrows(selector)

\* shouldSanitize with the try around the whole loop: the first pattern that
\* throws ends the loop.
shouldSanitize_TryAroundLoop(element, customPatterns) ==
    LET name == IF element.name # <<>> THEN element.name ELSE element.id
        bad == {i \in 1..Len(customPatterns) : Malformed(customPatterns[i])}
        last == IF bad = {} THEN Len(customPatterns)
                ELSE (CHOOSE i \in bad : \A j \in bad : i <= j) - 1
    IN
    \/ element.tag = "input" /\ element.type \in SENSITIVE_INPUT_TYPES
    \/ element.autocomplete # "" /\ element.autocomplete \in SENSITIVE_AUTOCOMPLETE_VALUES
    \/ \E i \in 1..Len(SENSITIVE_NAME_PATTERNS) :
          NamePatternTest(SENSITIVE_NAME_PATTERNS[i], name)
    \/ \E i \in 1..last :
          CustomPatternHits(element, name, customPatterns[i])

shouldSanitize(element, customPatterns) ==
    LET name == IF element.name # <<>> THEN element.name ELSE element.id IN
    \/ element.tag = "input" /\ element.type \in SENSITIVE_INPUT_TYPES
    \/ element.autocomplete # "" /\ element.autocomplete \in SENSITIVE_AUTOCOMPLETE_VALUES
    \/ \E i \in 1..Len(SENSITIVE_NAME_PATTERNS) :
          NamePatternTest(SENSITIVE_NAME_PATTERNS[i], name)
    \/ \E i \in 1..Len(customPatterns) :
          CustomPatternHits(element, name, customPatterns[i])

SANITIZED == <<"[", "S", "A", "N", "I", "T", "I", "Z", "E", "D", "]">>
PreviewLength == 50

\* getElementIdentifier: textContent.trim().slice(0, 30), ariaLabel.slice(0, 30),
\* split(/\s+/).slice(0, 2); getCSSPath: path.length < 5
TextLimit == 30
ClassLimit == 2
PathLimit == 5

\* console detector: message.slice(0, 500), args.slice(0, 5), arg.slice(0, 100)
MessageLimit == 500
ArgsLimit == 5
ArgLimit == 100

\* getSafeInputValue that caps a value of PreviewLength characters too.
getSafeInputValue_CapsAtLength(element, value, customPatterns) ==
    IF shouldSanitize(element, customPatterns) \/ containsSensitiveData(value)
    THEN [value |-> SANITIZED, isSanitized |-> TRUE]
    ELSE [value |-> IF Len(value) >= PreviewLength
                    THEN SubSeq(value, 1, PreviewLength) \o <<".", ".", ".">>
                    ELSE value,
          isSanitized |-> FALSE]

\* getSafeInputValue(element, customPatterns), value being element.value
getSafeInputValue(element, value, customPatterns) ==
    IF shouldSanitize(element, customPatterns) \/ containsSensitiveData(value)
    THEN [value |-> SANITIZED, isSanitized |-> TRUE]
    ELSE [value |-> IF Len(value) > PreviewLength
                    THEN SubSeq(value, 1, PreviewLength) \o <<".", ".", ".">>
                    ELSE value,
          isSanitized |-> FALSE]

(***************************************************************************)
(* element-identifier.ts: getElementIdentifier, for fields without data-*   *)
(* attributes and aria-label: id, then name, then class, then the path,     *)
(* which for a field alone under the body is its tag.                       *)
(***************************************************************************)
getElementIdentifier(element) ==
    IF element.id # <<>> THEN <<element.tag, "#">> \o element.id
    ELSE IF element.name # <<>> THEN <<element.tag, "[name=">> \o element.name
    ELSE IF element.className # <<>> THEN <<element.tag, ".">> \o element.className
    ELSE <<element.tag>>

(***************************************************************************)
(* The input sub-detectors: what each handler hands to onAction for an      *)
(* event on `target`, whose state at that moment is `state`:                *)
(* [value, checked, text], text being the text of the selected option.      *)
(***************************************************************************)
\* A text detector that goes on with every input element, checkboxes and
\* radio buttons included.
IsTextTarget_NoSkip(target) == target.tag \in {"input", "textarea"}

\* text-input-detector.ts: the targets handleEvent goes on with
skipTypes == {"hidden", "checkbox", "radio", "submit", "button", "reset", "image"}
IsTextTarget(target) ==
    /\ target.tag \in {"input", "textarea"}
    /\ ~(target.tag = "input" /\ target.type \in skipTypes)

\* previousValues.get(target) || ''
PreviousValue(pv, target) ==
    IF target \in DOMAIN pv THEN pv[target] ELSE <<>>
\* previousValues.set(target, value)
SetPreviousValue(pv, target, value) ==
    [x \in DOMAIN pv \cup {target} |-> IF x = target THEN value ELSE pv[x]]
NoPreviousValues == <<>>

TextInputAction(target, state, inputType, pv, sanitizePatterns, t) ==
    LET safe == getSafeInputValue(target, state.value, sanitizePatterns)
        prevValue == PreviousValue(pv, target)
    IN [value |-> safe.value,
        element |-> getElementIdentifier(target),
        type |-> "input",
        isSanitized |-> safe.isSanitized,
        inputType |-> inputType,
        valueLength |-> Len(state.value),
        wasCleared |-> Len(prevValue) > 0 /\ Len(state.value) = 0,
        timestamp |-> t]

\* checkbox-detector.ts
IsCheckboxTarget(target) ==
    target.tag = "input" /\ target.type \in {"checkbox", "radio"}

CheckboxAction(target, state, t) ==
    [value |-> IF state.checked THEN <<"c", "h", "e", "c", "k", "e", "d">>
               ELSE <<"u", "n", "c", "h", "e", "c", "k", "e", "d">>,
     element |-> getElementIdentifier(target),
     type |-> "input",
     isSanitized |-> FALSE,
     inputType |-> "change",
     valueLength |-> 1,
     wasCleared |-> FALSE,
     timestamp |-> t]

\* select-detector.ts
IsSelectTarget(target) == target.tag = "select"

SelectAction(target, state, t) ==
    LET selectedText == IF state.text # <<>> THEN state.text ELSE state.value IN
    [value |-> selectedText,
     element |-> getElementIdentifier(target),
     type |-> "input",
     isSanitized |-> FALSE,
     inputType |-> "change",
     valueLength |-> Len(selectedText),
     wasCleared |-> FALSE,
     timestamp |-> t]

(***************************************************************************)
(* Pages: the fields of a page, each with the states its user can put it in *)
(***************************************************************************)
Field(tag, type, id, name, autocomplete, className) ==
    [name |-> name, id |-> id, className |-> className, autocomplete |-> autocomplete,
     tag |-> tag, type |-> type]
TextState(value) == [text |-> <<>>, value |-> value, checked |-> FALSE]
CheckState(checked) == [text |-> <<>>, value |-> <<"o", "n">>, checked |-> checked]
OptionState(text) == [text |-> text, value |-> text, checked |-> FALSE]

\* One field of each kind, one state each.
PlainPage ==
    { [el |-> Field("input", "text", <<"q">>, <<>>, "", <<>>),
       states |-> {TextState(<<>>)}],
      [el |-> Field("input", "checkbox", <<"c">>, <<>>, "", <<>>),
       states |-> {CheckState(TRUE)}],
      [el |-> Field("select", "select-one", <<"s">>, <<>>, "", <<>>),
       states |-> {OptionState(<<"A">>)}] }

SsnText == <<"1", "2", "3", "-", "4", "5", "-", "6", "7", "8", "9">>
CardText == <<"4", "1", "1", "1", " ", "1", "1", "1", "1", " ", "1", "1",
    "1", "1", " ", "1", "1", "1", "1">>

FormPage ==
    { [el |-> Field("input", "text", <<"q">>, <<>>, "", <<>>),
       states |-> {TextState(<<>>), TextState(<<"h", "i">>), TextState(SsnText),
                   TextState(CardText)}],
      [el |-> Field("input", "password", <<"p", "w">>, <<>>, "", <<>>),
       states |-> {TextState(<<"a", "b", "c">>)}],
      [el |-> Field("input", "text", <<>>, <<"c", "a", "r", "d">>, "cc-number", <<>>),
       states |-> {TextState(<<"4", "1">>)}],
      [el |-> Field("textarea", "textarea", <<>>, <<"a", "p", "i", "_", "k", "e", "y">>, "", <<>>),
       states |-> {TextState(<<"k", "1">>)}],
      [el |-> Field("input", "text", <<"m", "e", "m", "o">>, <<>>, "", <<"a", "c", "c", "t">>),
       states |-> {TextState(<<"m">>)}],
      [el |-> Field("input", "hidden", <<"h">>, <<>>, "", <<>>),
       states |-> {TextState(<<"x">>)}],
      [el |-> Field("input", "checkbox", <<>>, <<"p", "i", "n">>, "", <<>>),
       states |-> {CheckState(TRUE), CheckState(FALSE)}],
      [el |-> Field("select", "select-one", <<>>, <<"s", "s", "n">>, "", <<>>),
       states |-> {OptionState(SsnText), OptionState(<<"n", "o">>)}],
      [el |-> Field("select", "select-one", <<"l", "a", "n", "g">>, <<>>, "", <<>>),
       states |-> {OptionState(<<"f", "r">>)}] }

(***************************************************************************)
(* Action records (types.ts), as the detectors build them.                  *)
(***************************************************************************)
\* (Left out of the records: page, which is window.location.pathname when
\* the record is built, and the duration of a request.)
ClickRecord(t) ==
    [element |-> "button#ok", type |-> "click", timestamp |-> t]
NavigationRecord(from, to, t) ==
    [from |-> from, type |-> "navigation", timestamp |-> t, to |-> to]
NetworkStatusRecord(status, t) ==
    [type |-> "network", timestamp |-> t, status |-> status, method |-> "GET"]
NetworkErrorRecord(error, t) ==
    [type |-> "network", timestamp |-> t, method |-> "GET", error |-> error]
ConsoleRecord(level, message, t) ==
    [type |-> "console", timestamp |-> t, level |-> level, message |-> message]

\* k copies of item: one per stacked wrapper or registered handler.
Copies(k, item) == [i \in 1..k |-> item]

RECURSIVE addAll(_, _)
addAll(b, items) ==
    IF items = <<>> THEN b ELSE addAll(add(b, Head(items)), Tail(items))

(***************************************************************************)
(* index.ts: the ErrorReplay controller.                                    *)
(***************************************************************************)
\* trackInputs is a boolean or a TrackInputsConfig object: isObject tells
\* which, and on is the boolean.
TrackAll == [text |-> TRUE, isObject |-> FALSE, checkbox |-> TRUE, select |-> TRUE,
             on |-> TRUE]
TrackNone == [text |-> TRUE, isObject |-> FALSE, checkbox |-> TRUE, select |-> TRUE,
              on |-> FALSE]
TrackOnlyText == [text |-> TRUE, isObject |-> TRUE, checkbox |-> FALSE, select |-> FALSE,
                  on |-> TRUE]

\* config.user: undefined, or the caller's object, which may be empty.  An
\* object is truthy.
NoUser == [given |-> FALSE]
EmptyUserBlock == [given |-> TRUE]
UserBlock == [id |-> "u1", given |-> TRUE]
UserInputs == {NoUser, EmptyUserBlock, UserBlock}
\* A test that attaches whatever config.user is.
Truthy_Always(user) == TRUE
\* if (this.config.user)
Truthy(user) == user.given

\* The configurations the controller is constructed with.
ConfigAll ==
    [trackInputs |-> TrackAll, user |-> UserBlock, maxActions |-> 1,
     trackClicks |-> TRUE, trackNavigation |-> TRUE, trackNetwork |-> TRUE,
     trackConsole |-> TRUE, sanitize |-> <<>>, onError |-> TRUE]
ConfigNetwork ==
    [trackInputs |-> TrackNone, user |-> NoUser, maxActions |-> 1,
     trackClicks |-> FALSE, trackNavigation |-> FALSE, trackNetwork |-> TRUE,
     trackConsole |-> FALSE, sanitize |-> <<>>, onError |-> FALSE]
ConfigClicksConsole ==
    [trackInputs |-> TrackNone, user |-> NoUser, maxActions |-> 2,
     trackClicks |-> TRUE, trackNavigation |-> FALSE, trackNetwork |-> FALSE,
     trackConsole |-> TRUE, sanitize |-> <<>>, onError |-> TRUE]
ConfigInputsNavigation ==
    [trackInputs |-> TrackOnlyText, user |-> UserBlock, maxActions |-> 1,
     trackClicks |-> FALSE, trackNavigation |-> TRUE, trackNetwork |-> FALSE,
     trackConsole |-> FALSE, sanitize |-> <<>>, onError |-> FALSE]
ConfigNothing ==
    [trackInputs |-> TrackNone, user |-> NoUser, maxActions |-> 2,
     trackClicks |-> FALSE, trackNavigation |-> FALSE, trackNetwork |-> FALSE,
     trackConsole |-> FALSE, sanitize |-> <<>>, onError |-> FALSE]
Configs == {ConfigAll, ConfigNetwork, ConfigClicksConsole, ConfigInputsNavigation,
            ConfigNothing}

\* The configurations of SpecInput: input tracking only.
TrackTextSelect == [text |-> TRUE, isObject |-> TRUE, checkbox |-> FALSE, select |-> TRUE,
                    on |-> TRUE]
ConfigInputs ==
    [trackInputs |-> TrackAll, user |-> NoUser, maxActions |-> 2,
     trackClicks |-> FALSE, trackNavigation |-> FALSE, trackNetwork |-> FALSE,
     trackConsole |-> FALSE, sanitize |-> <<>>, onError |-> FALSE]
ConfigInputsCustom ==
    [trackInputs |-> TrackTextSelect, user |-> NoUser, maxActions |-> 1,
     trackClicks |-> FALSE, trackNavigation |-> FALSE, trackNetwork |-> FALSE,
     trackConsole |-> FALSE,
     sanitize |-> << <<"(">>, <<"A", "c", "c", "t">>, <<"[">>, <<"#", "q", "q">> >>,
     onError |-> FALSE]
InputConfigs == {ConfigInputs, ConfigInputsCustom}

\* The truthiness of config.trackInputs: an object is truthy.
TrackInputsTruthy(cfg) == cfg.trackInputs.isObject \/ cfg.trackInputs.on

Categories == <<"click", "input", "navigation", "network", "console">>
Enabled(cfg, kind) ==
    CASE kind = "click" -> cfg.trackClicks
      [] kind = "input" -> TrackInputsTruthy(cfg)
      [] kind = "navigation" -> cfg.trackNavigation
      [] kind = "network" -> cfg.trackNetwork
      [] kind = "console" -> cfg.trackConsole

\* start(), lines 66-108: the detectors are created in this order, each
\* pushing its unregister callback. st is [g, cleanups].
StartClicks(cfg, st) ==
    IF cfg.trackClicks
    THEN [g |-> createClickDetector(st.g), cleanups |-> Append(st.cleanups, ClickCleanup)]
    ELSE st
StartInputs(cfg, st) ==
    IF TrackInputsTruthy(cfg)
    THEN [g |-> createInputDetector(st.g, cfg.trackInputs),
          cleanups |-> Append(st.cleanups, InputCleanup(cfg.trackInputs))]
    ELSE st
StartNavigation(cfg, st) ==
    IF cfg.trackNavigation
    THEN [g |-> createNavigationDetector(st.g),
          cleanups |-> Append(st.cleanups, NavigationCleanup(st.g))]
    ELSE st
StartNetwork(cfg, st) ==
    IF cfg.trackNetwork
    THEN [g |-> createNetworkDetector(st.g),
          cleanups |-> Append(st.cleanups, NetworkCleanup(st.g))]
    ELSE st
StartConsole(cfg, st) ==
    IF cfg.trackConsole
    THEN [g |-> createConsoleDetector(st.g),
          cleanups |-> Append(st.cleanups, ConsoleCleanup(st.g))]
    ELSE st
StartDetectors(cfg, st) ==
    StartConsole(cfg, StartNetwork(cfg, StartNavigation(cfg,
        StartInputs(cfg, StartClicks(cfg, st)))))

\* DEFAULT_CONFIG and new ErrorReplay(config): { ...DEFAULT_CONFIG, ...config },
\* then the buffer; the instance, or the Error the buffer's constructor threw.
DEFAULT_CONFIG ==
    [trackInputs |-> TrackAll, maxActions |-> 50, trackClicks |-> TRUE,
     trackNavigation |-> TRUE, trackNetwork |-> TRUE, trackConsole |-> TRUE,
     sanitize |-> <<>>, captureComponents |-> TRUE]
Spread(defaults, given) ==
    [f \in DOMAIN defaults \cup DOMAIN given |->
        IF f \in DOMAIN given THEN given[f] ELSE defaults[f]]
ErrorReplay(given) ==
    LET cfg == Spread(DEFAULT_CONFIG, given)
        b == NewCircularBuffer(cfg.maxActions)
    IN IF HasThrown(b) THEN b
       ELSE [buffer |-> b, config |-> cfg, isRunning |-> FALSE,
             cleanupFunctions |-> <<>>, errorHandler |-> FALSE,
             rejectionHandler |-> FALSE]

\* installErrorHandlers that registers each handler twice.
installErrorHandlers_Twice(g) ==
    AddListeners(AddListeners(g, {"error", "unhandledrejection"}),
                 {"error", "unhandledrejection"})

\* installErrorHandlers / removeErrorHandlers on the window listeners.
installErrorHandlers(g) == AddListeners(g, {"error", "unhandledrejection"})

\* removeErrorHandlers that nulls the two fields and leaves the listeners on
\* the window.
removeErrorHandlers_KeepsListeners(g, hasError, hasRejection) == g

removeErrorHandlers(g, hasError, hasRejection) ==
    RemoveListeners(g, (IF hasError THEN {"error"} ELSE {})
                       \cup (IF hasRejection THEN {"unhandledrejection"} ELSE {}))

\* formatRelativeTime(timestamp, now): the text as its pieces, numbers kept
\* as numbers: "-2m 5s" is <<"-", 2, "m ", 5, "s">>.
formatRelativeTime(timestamp, t) ==
    LET diff == t - timestamp
        seconds == diff \div 1000
        minutes == seconds \div 60
        remainingSeconds == seconds % 60
        hours == minutes \div 60
        remainingMinutes == minutes % 60
    IN IF seconds = 0 THEN <<"0s">>
       ELSE IF seconds < 60 THEN <<"-", seconds, "s">>
       ELSE IF minutes < 60
            THEN IF remainingSeconds > 0
                 THEN <<"-", minutes, "m ", remainingSeconds, "s">>
                 ELSE <<"-", minutes, "m">>
       ELSE <<"-", hours, "h ", remainingMinutes, "m">>

\* { ...action, relativeTime }: a new record; the buffered one is not touched.
WithRelativeTime(action, rel) ==
    [f \in DOMAIN action \cup {"relativeTime"} |->
        IF f = "relativeTime" THEN rel ELSE action[f]]

\* A snapshot that overwrites each timestamp with the capture instant.
getActionsWithRelativeTime_Restamps(b, t) ==
    LET actions == getAll(b) IN
    [i \in 1..Len(actions) |->
        WithRelativeTime([actions[i] EXCEPT !.timestamp = t],
                         formatRelativeTime(actions[i].timestamp, t))]

\* A snapshot that leaves the oldest buffered record out.
getActionsWithRelativeTime_DropsOldest(b, t) ==
    LET actions == IF getAll(b) = <<>> THEN <<>> ELSE Tail(getAll(b)) IN
    [i \in 1..Len(actions) |->
        WithRelativeTime(actions[i], formatRelativeTime(actions[i].timestamp, t))]

getActionsWithRelativeTime(b, t) ==
    LET actions == getAll(b) IN
    [i \in 1..Len(actions) |->
        WithRelativeTime(actions[i], formatRelativeTime(actions[i].timestamp, t))]

\* The values capture() is called with: an Error object, a string, anything else.
ErrorInputs ==
    { [name |-> "TypeError", message |-> "boom", isError |-> TRUE, isString |-> FALSE,
       stack |-> "TypeError: boom at f"],
      [text |-> "plain string error", isError |-> FALSE, isString |-> TRUE],
      [text |-> "42", isError |-> FALSE, isString |-> FALSE] }

\* Values capture() can be handed besides those: null, an Error of the base
\* kind with an empty message, and an object with neither toString nor
\* valueOf (Object.create(null)), which has no text.
NullPrototypeObject == [isError |-> FALSE, isString |-> FALSE]
OtherErrorInputs ==
    { [name |-> "Error", message |-> "", isError |-> TRUE, isString |-> FALSE,
       stack |-> "Error at g"],
      [text |-> "null", isError |-> FALSE, isString |-> FALSE],
      NullPrototypeObject }

\* String(value): the text of the value; a TypeError for an object that
\* cannot be converted to a primitive.
String(value) ==
    IF "text" \in DOMAIN value THEN [text |-> value.text] ELSE Thrown("TypeError")

extractErrorInfo(error) ==
    IF error.isError
    THEN [type |-> error.name, message |-> error.message, stack |-> error.stack]
    ELSE IF error.isString
    THEN [type |-> "Error", message |-> error.text]
    ELSE IF HasThrown(String(error)) THEN String(error)
    ELSE [type |-> "Unknown", message |-> String(error).text]

getContext(loc, t) ==
    [timestamp |-> t, url |-> loc, platform |-> "web"]

\* Math.random() in generateReportId.
Randoms == {0, 1}
generateReportId(t, random) == <<"err", t, random>>

\* capture(error): the report, built from the buffer b at instant t.
capture(cfg, b, error, loc, t, random) ==
    LET report == [timestamp |-> t,
                   error     |-> extractErrorInfo(error),
                   actions   |-> getActionsWithRelativeTime(b, t),
                   reportId  |-> generateReportId(t, random),
                   context   |-> getContext(loc, t)]
    IN IF HasThrown(extractErrorInfo(error)) THEN extractErrorInfo(error)
       ELSE IF Truthy(cfg.user)
       THEN [f \in DOMAIN report \cup {"user"} |->
                IF f = "user" THEN cfg.user ELSE report[f]]
       ELSE report

\* A report's actions with relativeTime taken off again.
WithoutRelativeTime(action) ==
    [f \in DOMAIN action \ {"relativeTime"} |-> action[f]]
PlainActions(actions) ==
    [i \in 1..Len(actions) |-> WithoutRelativeTime(actions[i])]

(***************************************************************************)
(* Spec: one controller and its browser.                                    *)
(***************************************************************************)
NoRet == [op |-> "none"]

\* One XMLHttpRequest object, from new to the end of its request.  data: the
\* live network detector's xhrData holds an entry for it.  listener: what
\* send() put on it: "none"; "live", listeners of the live detector, which
\* read that xhrData; "staleData" / "staleNoData", listeners of a detector
\* that has been unregistered since, with what its xhrData holds.
NewXhr == [state |-> "unsent", data |-> FALSE, listener |-> "none"]

InitWith(configs, page) ==
    /\ config \in configs
    /\ buffer = CircularBuffer(config.maxActions)
    /\ ctorCap = config.maxActions
    /\ ret = NoRet
    /\ hist = <<>>
    /\ nAdded = 0
    /\ isRunning = FALSE
    /\ cleanupFunctions = <<>>
    /\ errorHandler = FALSE
    /\ rejectionHandler = FALSE
    /\ patched = [f \in Globals |-> 0]
    /\ listeners = [e \in Events |-> 0]
    /\ pendingFetch = <<>>
    /\ xhr = NewXhr
    /\ location = "/a"
    /\ currentPath = PathOf("/a")
    /\ now = 0
    /\ document = page
    /\ heap = <<>>
    /\ previousValues = NoPreviousValues
    /\ lastActions = <<>>
    /\ capturedSinceAdd = FALSE
    /\ capturesSinceChange = 0

Init == InitWith(Configs, PlainPage)

\* The last k elements of sequence s (all of s when k >= Len(s)).
LastK(s, k) == SubSeq(s, Len(s) - Min(k, Len(s)) + 1, Len(s))

\* What a record that no form field produced was built from.
NoOrigin == [field |-> "none"]

\* addAction, for every record the handlers of one event hand over; origin
\* is what the event carried.
EmitFrom(items, origin) ==
    /\ nAdded + Len(items) <= MaxAdds
    /\ buffer' = addAll(buffer, items)
    /\ hist' = LastK(hist \o Copies(Len(items), origin), capacity(buffer))
    /\ nAdded' = nAdded + Len(items)
    /\ IF items = <<>>
       THEN UNCHANGED repVars
       ELSE /\ lastActions' = <<>>
            /\ capturedSinceAdd' = FALSE
            /\ capturesSinceChange' = 0
    /\ UNCHANGED <<ret, ctorCap>>

Emit(items) == EmitFrom(items, NoOrigin)

\* this.buffer.clear()
ClearBuffer ==
    /\ buffer' = clear(buffer)
    /\ hist' = <<>>
    /\ capturesSinceChange' = 0
    /\ UNCHANGED <<ret, ctorCap, nAdded, lastActions, capturedSinceAdd>>

\* A report has been made from the buffer.
Captured(report) ==
    /\ UNCHANGED <<buffer, ret, ctorCap, hist, nAdded>>
    /\ capturedSinceAdd' = TRUE
    /\ capturesSinceChange' = Min(capturesSinceChange + 1, 2)
    /\ lastActions' = PlainActions(report.actions)

\* The browser as a call of the controller finds it; no unregister callback
\* has been invoked in this call yet.
Browser == [patched |-> patched, listeners |-> listeners, calls |-> <<>>]

\* The live network detector is unregistered: the listeners it put on the
\* object keep the xhrData they read, and the next detector starts with an
\* empty xhrData.
RetireXhrData(x) ==
    [x EXCEPT !.data = FALSE,
              !.listener = IF @ = "live"
                           THEN (IF x.data THEN "staleData" ELSE "staleNoData")
                           ELSE @]

\* start()
Start ==
    IF isRunning
    THEN \* console.warn('ErrorReplay is already running'), through whatever
         \* console.warn is at this moment
         /\ Emit(Copies(patched["consoleWarn"],
                        ConsoleRecord("warn", "ErrorReplay is already running", now)))
         /\ UNCHANGED <<ctlVars, envVars, domVars>>
    ELSE LET st == StartDetectors(config,
                      [g |-> Browser, cleanups |-> cleanupFunctions])
             g2 == installErrorHandlers(st.g)
         IN /\ isRunning' = TRUE
            /\ cleanupFunctions' = st.cleanups
            /\ errorHandler' = TRUE
            /\ rejectionHandler' = TRUE
            /\ patched' = g2.patched
            /\ listeners' = g2.listeners
            /\ currentPath' = IF config.trackNavigation
                              THEN PathOf(location) ELSE currentPath
            /\ previousValues' = IF TrackInputsTruthy(config)
                                     /\ TrackOf(config.trackInputs).text
                                  THEN NoPreviousValues ELSE previousValues
            /\ UNCHANGED <<config, pendingFetch, xhr, location, now, document, heap>>
            /\ UNCHANGED <<buffer, ret, ctorCap, hist, nAdded, repVars>>

\* stop() that forgets `this.cleanupFunctions = []`.
stop_KeepsCallbacks ==
    IF ~isRunning
    THEN UNCHANGED <<ctlVars, envVars, domVars>>
    ELSE LET g1 == RunCleanups(Browser, cleanupFunctions)
             g2 == removeErrorHandlers(g1, errorHandler, rejectionHandler)
         IN /\ isRunning' = FALSE
            /\ errorHandler' = FALSE
            /\ rejectionHandler' = FALSE
            /\ patched' = g2.patched
            /\ listeners' = g2.listeners
            /\ xhr' = IF \E i \in 1..Len(cleanupFunctions) :
                            cleanupFunctions[i].kind = "network"
                      THEN RetireXhrData(xhr) ELSE xhr
            /\ UNCHANGED <<config, cleanupFunctions, pendingFetch, location,
                           currentPath, now, domVars>>

\* stop(): the controller and the browser.
stop ==
    IF ~isRunning
    THEN UNCHANGED <<ctlVars, envVars, domVars>>
    ELSE LET g1 == RunCleanups(Browser, cleanupFunctions)
             g2 == removeErrorHandlers(g1, errorHandler, rejectionHandler)
         IN /\ isRunning' = FALSE
            /\ cleanupFunctions' = <<>>
            /\ errorHandler' = FALSE
            /\ rejectionHandler' = FALSE
            /\ patched' = g2.patched
            /\ listeners' = g2.listeners
            /\ xhr' = IF \E i \in 1..Len(cleanupFunctions) :
                            cleanupFunctions[i].kind = "network"
                      THEN RetireXhrData(xhr) ELSE xhr
            /\ UNCHANGED <<config, pendingFetch, location, currentPath, now,
                           domVars>>

\* stop() that also empties the buffer.
Stop_ClearsBuffer ==
    /\ stop
    /\ ClearBuffer

Stop ==
    /\ stop
    /\ UNCHANGED <<buffer, ret, ctorCap, hist, nAdded, repVars>>

\* clear()
Clear ==
    /\ ClearBuffer
    /\ UNCHANGED <<ctlVars, envVars, domVars>>

\* cleanup() that stops and forgets to clear.
Cleanup_OnlyStops ==
    /\ stop
    /\ UNCHANGED <<buffer, ret, ctorCap, hist, nAdded, repVars>>

\* cleanup(): stop(), then clear()
Cleanup ==
    /\ stop
    /\ ClearBuffer

\* The unregister callbacks a stop() called now invokes, in order.
stopCalls ==
    IF ~isRunning THEN <<>> ELSE RunCleanups(Browser, cleanupFunctions).calls

\* capture(error) that writes relativeTime into the buffered records
\* themselves instead of into copies.
Capture_InPlace ==
    /\ \E error \in ErrorInputs, random \in Randoms :
          LET report == capture(config, buffer, error, location, now, random) IN
          /\ lastActions' = PlainActions(report.actions)
          /\ capturedSinceAdd' = TRUE
          /\ capturesSinceChange' = Min(capturesSinceChange + 1, 2)
    /\ buffer' = [buffer EXCEPT !.buffer =
                    [i \in DOMAIN buffer.buffer |->
                        IF buffer.buffer[i] = undefined THEN undefined
                        ELSE <<WithRelativeTime(buffer.buffer[i][1],
                                 formatRelativeTime(buffer.buffer[i][1].timestamp, now))>>]]
    /\ UNCHANGED <<ret, ctorCap, hist, nAdded, ctlVars, envVars, domVars>>

\* capture(error), called by the application
Capture ==
    /\ UNCHANGED <<ctlVars, envVars, domVars>>
    /\ \E error \in ErrorInputs, random \in Randoms :
          Captured(capture(config, buffer, error, location, now, random))

\* getActions(), actionCount(), isActive(): what they return; they assign
\* nothing.
getActions == getAll(buffer)
actionCount == size(buffer)
isActive == isRunning

Queries ==
    /\ getActions = getAll(buffer)
    /\ actionCount = size(buffer)
    /\ isActive = isRunning
    /\ UNCHANGED vars

(***************************************************************************)
(* Host events.  Each runs every handler registered for it to completion.   *)
(***************************************************************************)
\* A click or a touchstart on the document (click-detector.ts handleClick).
Click ==
    /\ \E ev \in {"click", "touchstart"} :
          /\ listeners[ev] > 0
          /\ Emit(Copies(listeners[ev], ClickRecord(now)))
    /\ UNCHANGED <<ctlVars, envVars, domVars>>

\* The handlers of the older createInputDetector, which also listens to
\* input and focus.
TextHandlers_Legacy(ls, ev) ==
    IF ev \in {"change", "blur"} THEN ls[ev \o ".text"] ELSE ls["change.text"]

\* The handlers the text detector has on the document for one event: it
\* registers handleChangeEvent and handleBlurEvent, nothing for input and
\* focus.
TextHandlers(ls, ev) ==
    IF ev \in {"change", "blur"} THEN ls[ev \o ".text"] ELSE 0

DomInputEvents == {"input", "change", "focus", "blur"}

\* An input, change, focus or blur event on a field of the page, in the state
\* its user left it in; with no handler for the event nothing happens.  The
\* document's capture listeners run in registration order:
\* the text detector's, then (change only) the checkbox detector's and the
\* select detector's; each handler returns early on a target that is not its
\* own.
InputEvent ==
    /\ \E f \in document, ev \in DomInputEvents :
          \E state \in f.states :
             LET target == f.el
                 text == IF IsTextTarget(target)
                         THEN Copies(TextHandlers(listeners, ev),
                                     TextInputAction(target, state, ev, previousValues,
                                                     config.sanitize, now))
                         ELSE <<>>
                 checkbox == IF ev = "change" /\ IsCheckboxTarget(target)
                             THEN Copies(listeners["change.checkbox"],
                                         CheckboxAction(target, state, now))
                             ELSE <<>>
                 select == IF ev = "change" /\ IsSelectTarget(target)
                           THEN Copies(listeners["change.select"],
                                       SelectAction(target, state, now))
                           ELSE <<>>
             IN /\ TextHandlers(listeners, ev) > 0
                   \/ ev \in {"input", "focus"}
                   \/ (ev = "change" /\ listeners["change.checkbox"] > 0)
                   \/ (ev = "change" /\ listeners["change.select"] > 0)
                /\ EmitFrom(text \o checkbox \o select,
                            [state |-> state, field |-> target])
                /\ previousValues' = IF text # <<>>
                                     THEN SetPreviousValue(previousValues, target,
                                                           state.value)
                                     ELSE previousValues
    /\ UNCHANGED <<ctlVars, envVars, document, heap>>

\* recordNavigation(from, to) of the navigation detector: the records it
\* hands over; currentPath becomes `to` (which it already is when from = to).
\* recordNavigation without the `from === to` return.
recordNavigation_NoDedup(from, to, t) == <<NavigationRecord(from, to, t)>>

recordNavigation(from, to, t) ==
    IF from = to THEN <<>> ELSE <<NavigationRecord(from, to, t)>>

\* history.pushState / history.replaceState with a URL.
HistoryCall ==
    /\ \E fn \in {"pushState", "replaceState"}, to \in Paths :
          /\ location' = to
          /\ IF patched[fn] > 0
             THEN /\ Emit(recordNavigation(currentPath, PathOf(to), now))
                  /\ currentPath' = PathOf(to)
             ELSE /\ Emit(<<>>)
                  /\ UNCHANGED currentPath
    /\ UNCHANGED <<ctlVars, domVars, patched, listeners, pendingFetch, xhr, now>>

\* popstate: back or forward to another entry.
PopState ==
    /\ \E to \in Paths :
          /\ location' = to
          /\ IF listeners["popstate"] > 0
             THEN /\ Emit(recordNavigation(currentPath, PathOf(to), now))
                  /\ currentPath' = PathOf(to)
             ELSE /\ Emit(<<>>)
                  /\ UNCHANGED currentPath
    /\ UNCHANGED <<ctlVars, domVars, patched, listeners, pendingFetch, xhr, now>>

\* hashchange: the fragment changes to h, the path stays.  Only this handler
\* reads window.location.hash.
HashChange ==
    /\ listeners["hashchange"] > 0
    /\ \E h \in Hashes :
          /\ Emit(recordNavigation(currentPath, PathWithHashOf(location, h), now))
          /\ currentPath' = PathWithHashOf(location, h)
    /\ UNCHANGED <<ctlVars, domVars, patched, listeners, pendingFetch, xhr, location, now>>

\* window.fetch(...) through the wrapper, which awaits originalFetch.
FetchCall ==
    /\ patched["fetch"] > 0
    /\ Len(pendingFetch) < MaxPending
    /\ pendingFetch' = Append(pendingFetch, [wrappers |-> patched["fetch"]])
    /\ UNCHANGED <<bufVars, ctlVars, repVars, domVars>>
    /\ UNCHANGED <<patched, listeners, xhr, location, currentPath, now>>

RemoveAt(seq, i) == SubSeq(seq, 1, i - 1) \o SubSeq(seq, i + 1, Len(seq))

\* A wrapper that stamps its record with the time the request was issued.
SettleTimestamp_AtIssue(pending, t) == pending.startTime

\* timestamp: Date.now(), read when the record is built after the await.
SettleTimestamp(pending, t) == t

\* originalFetch settles: the wrapper resumes after its await and hands its
\* record to onAction.
FetchSettle ==
    /\ \E i \in 1..Len(pendingFetch), outcome \in {"resolve", "reject"} :
          LET stamp == SettleTimestamp(pendingFetch[i], now)
              item == IF outcome = "resolve"
                      THEN NetworkStatusRecord(200, stamp)
                      ELSE NetworkErrorRecord("Failed to fetch", stamp)
          IN /\ Emit(Copies(pendingFetch[i].wrappers, item))
             /\ pendingFetch' = RemoveAt(pendingFetch, i)
    /\ UNCHANGED <<ctlVars, domVars, patched, listeners, xhr, location, currentPath, now>>

\* xhr.open(method, url) on a new object: the wrapper stores its xhrData entry.
XhrOpen ==
    /\ xhr.state = "unsent"
    /\ xhr' = [xhr EXCEPT !.state = "opened", !.data = patched["xhrOpen"] > 0]
    /\ UNCHANGED <<bufVars, ctlVars, repVars, domVars>>
    /\ UNCHANGED <<patched, listeners, pendingFetch, location, currentPath, now>>

\* xhr.send(body): the wrapper adds a loadend and an error listener to the
\* object.
XhrSend ==
    /\ xhr.state = "opened"
    /\ xhr' = [xhr EXCEPT !.state = "sent",
                          !.listener = IF patched["xhrSend"] > 0 THEN "live" ELSE @]
    /\ UNCHANGED <<bufVars, ctlVars, repVars, domVars>>
    /\ UNCHANGED <<patched, listeners, pendingFetch, location, currentPath, now>>

\* xhrData.get(this) in a listener of object x.
ListenerHasData(x) ==
    \/ x.listener = "live" /\ x.data
    \/ x.listener = "staleData"

\* The request finishes: a response fires loadend; a network error fires
\* error and then loadend (with status 0).  The object is not used again.
XhrDone ==
    /\ xhr.state = "sent"
    /\ \E outcome \in {"load", "error"} :
          Emit(IF xhr.listener = "none" \/ ~ListenerHasData(xhr)
               THEN <<>>
               ELSE IF outcome = "load"
               THEN <<NetworkStatusRecord(200, now)>>
               ELSE <<NetworkErrorRecord("Network error", now),
                      NetworkStatusRecord(0, now)>>)
    /\ xhr' = NewXhr
    /\ UNCHANGED <<ctlVars, domVars, patched, listeners, pendingFetch, location, currentPath, now>>

\* console.error(...) or console.warn(...) by the application.
ConsoleCall ==
    /\ \E level \in {"error", "warn"} :
          LET fn == IF level = "error" THEN "consoleError" ELSE "consoleWarn" IN
          /\ patched[fn] > 0
          /\ Emit(Copies(patched[fn], ConsoleRecord(level, "app message", now)))
    /\ UNCHANGED <<ctlVars, envVars, domVars>>

\* An uncaught error or an unhandled rejection reaches the window: every
\* registered handler captures and, when onError is configured, hands the
\* report over.
ErrorEvents == {"error", "unhandledrejection"}

\* The reports made when the window delivers event ev now: every handler
\* registered for it calls capture() once.
HandlerReports(ev, error, random) ==
    Copies(listeners[ev], capture(config, buffer, error, location, now, random))

\* The reports handed to config.onError, one call each.
OnErrorCalls(reports) == IF config.onError THEN reports ELSE <<>>

ErrorEvent ==
    /\ UNCHANGED <<ctlVars, envVars, domVars>>
    /\ \E ev \in ErrorEvents :
          /\ listeners[ev] > 0
          /\ \E error \in ErrorInputs, random \in Randoms :
                LET reports == HandlerReports(ev, error, random)
                IN Captured(reports[Len(reports)])

\* Time passes.
Tick ==
    /\ now < MaxTicks * TickMs
    /\ now' = now + TickMs
    /\ UNCHANGED <<bufVars, ctlVars, repVars, domVars>>
    /\ UNCHANGED <<patched, listeners, pendingFetch, xhr, location, currentPath>>

Next ==
    \/ Start \/ Stop \/ Clear \/ Cleanup \/ Capture \/ Queries
    \/ Click \/ InputEvent \/ HistoryCall \/ PopState \/ HashChange
    \/ FetchCall \/ FetchSettle \/ XhrOpen \/ XhrSend \/ XhrDone
    \/ ConsoleCall \/ ErrorEvent \/ Tick

Spec == Init /\ [][Next]_vars

(***************************************************************************)
(* SpecInput: the controller with input tracking only, on a page of form    *)
(* fields.                                                                  *)
(***************************************************************************)
InitInput == InitWith(InputConfigs, FormPage)

NextInput == Start \/ Stop \/ Clear \/ InputEvent

SpecInput == InitInput /\ [][NextInput]_vars

(***************************************************************************)
(* SpecBuffer: one CircularBuffer on its own; the records are 1, 2, 3, ...  *)
(***************************************************************************)
\* The controller and the browser, not in use.
UnusedAt(t) ==
    /\ config = ConfigNothing
    /\ isRunning = FALSE
    /\ cleanupFunctions = <<>>
    /\ errorHandler = FALSE
    /\ rejectionHandler = FALSE
    /\ patched = [f \in Globals |-> 0]
    /\ listeners = [e \in Events |-> 0]
    /\ pendingFetch = <<>>
    /\ xhr = NewXhr
    /\ location = "/a"
    /\ currentPath = PathOf("/a")
    /\ now = t
    /\ document = PlainPage
    /\ heap = <<>>
    /\ previousValues = NoPreviousValues
    /\ lastActions = <<>>
    /\ capturedSinceAdd = FALSE
    /\ capturesSinceChange = 0

Unused == UnusedAt(0)

InitBuffer ==
    /\ \E c \in 1..MaxCap :
          /\ ~ConstructorThrows(c)
          /\ buffer = CircularBuffer(c)
          /\ ctorCap = c
    /\ hist = <<>>
    /\ ret = NoRet
    /\ nAdded = 0
    /\ Unused

BufAdd ==
    /\ nAdded < MaxItems
    /\ buffer' = add(buffer, nAdded + 1)
    /\ hist' = Append(hist, nAdded + 1)
    /\ nAdded' = nAdded + 1
    /\ ret' = [op |-> "add"]
    /\ UNCHANGED <<ctorCap, ctlVars, envVars, repVars, domVars>>

BufClear ==
    /\ buffer' = clear(buffer)
    /\ hist' = <<>>
    /\ ret' = [op |-> "clear"]
    /\ UNCHANGED <<ctorCap, nAdded, ctlVars, envVars, repVars, domVars>>

\* A getAll() that hands its records over and forgets them.
BufGetAll_Drains ==
    /\ ret' = [op |-> "getAll", val |-> getAll(buffer)]
    /\ buffer' = clear(buffer)
    /\ UNCHANGED <<ctorCap, hist, nAdded, ctlVars, envVars, repVars, domVars>>

BufGetAll ==
    /\ ret' = [op |-> "getAll", val |-> getAll(buffer)]
    /\ UNCHANGED <<buffer, ctorCap, hist, nAdded, ctlVars, envVars, repVars, domVars>>

BufGetLast ==
    /\ \E n \in 0..(MaxCap + 1) :
          ret' = [n |-> n, op |-> "getLast", val |-> getLast(buffer, n)]
    /\ UNCHANGED <<buffer, ctorCap, hist, nAdded, ctlVars, envVars, repVars, domVars>>

\* size(), isEmpty(), isFull(), capacity()
BufQuery ==
    /\ ret' = [size |-> size(buffer), isEmpty |-> isEmpty(buffer), isFull |-> isFull(buffer),
               capacity |-> capacity(buffer), op |-> "query"]
    /\ UNCHANGED <<buffer, ctorCap, hist, nAdded, ctlVars, envVars, repVars, domVars>>

\* The caller writes to the array getAll() or getLast() returned (drops its
\* first element, or pushes onto an empty one): the array is the `result`
\* built by the call, not this.buffer.
BufWriteReturned ==
    /\ ret.op \in {"getAll", "getLast"}
    /\ ret' = [op |-> "written",
               val |-> IF ret.val = <<>> THEN <<0>> ELSE Tail(ret.val)]
    /\ UNCHANGED <<buffer, ctorCap, hist, nAdded, ctlVars, envVars, repVars, domVars>>

NextBuffer ==
    \/ BufAdd
    \/ BufClear
    \/ BufGetAll
    \/ BufGetLast
    \/ BufQuery
    \/ BufWriteReturned

SpecBuffer == InitBuffer /\ [][NextBuffer]_vars

(***************************************************************************)
(* SpecReport: one controller that tracks clicks and the console; console  *)
(* records carry their args array, held in heap, and ret keeps the last    *)
(* report capture() returned.                                               *)
(***************************************************************************)
InitReport == InitWith({ConfigClicksConsole}, PlainPage)

\* createConsoleAction: the record with args, a new array at address a.
ConsoleRecordWithArgs(level, message, a, t) ==
    [f \in DOMAIN ConsoleRecord(level, message, t) \cup {"args"} |->
        IF f = "args" THEN [ref |-> a] ELSE ConsoleRecord(level, message, t)[f]]

\* args.slice(0, 5).map(...) of a call with one short string
ArgsOf(message) == <<message>>

\* console.error / console.warn with one string, through the wrappers
ConsoleCallArgs ==
    /\ \E level \in {"error", "warn"} :
          LET fn == IF level = "error" THEN "consoleError" ELSE "consoleWarn"
              k == patched[fn]
          IN /\ k > 0
             /\ Emit([i \in 1..k |->
                       ConsoleRecordWithArgs(level, "app message", Len(heap) + i, now)])
             /\ heap' = heap \o Copies(k, ArgsOf("app message"))
    /\ UNCHANGED <<ctlVars, envVars, document, previousValues>>

\* The addresses held by a sequence of action records, and the records with
\* the arrays in the place of their addresses.
ActionRefs(actions) ==
    {actions[i].args.ref : i \in {j \in 1..Len(actions) : "args" \in DOMAIN actions[j]}}
Deref(actions, h) ==
    [i \in 1..Len(actions) |->
        IF "args" \in DOMAIN actions[i]
        THEN [actions[i] EXCEPT !.args = h[@.ref]]
        ELSE actions[i]]

\* capture() that hands its report to config.onError itself.
captureOnErrorCalls_Notifies(cfg, report) ==
    IF cfg.onError THEN <<report>> ELSE <<>>

\* The calls of config.onError that capture(error) makes in its own body:
\* it builds the report and returns it.
captureOnErrorCalls(cfg, report) == <<>>

\* capture(error), called by the application; ret keeps the report, what it
\* read as when it was returned, the reportId of the report before it and
\* the reports handed to config.onError during the call.
CaptureKept ==
    /\ UNCHANGED <<ctlVars, envVars, domVars>>
    /\ UNCHANGED <<buffer, ctorCap, hist, nAdded>>
    /\ \E error \in ErrorInputs, random \in Randoms :
          LET report == capture(config, buffer, error, location, now, random) IN
          /\ ret' = [onError |-> captureOnErrorCalls(config, report),
                     report |-> report,
                     op |-> "capture",
                     deep |-> Deref(report.actions, heap),
                     previous |-> IF ret.op = "capture"
                                  THEN ret.report.reportId ELSE <<>>]
          /\ capturedSinceAdd' = TRUE
          /\ capturesSinceChange' = Min(capturesSinceChange + 1, 2)
          /\ lastActions' = PlainActions(report.actions)

\* An uncaught error or an unhandled rejection reaches the window: the
\* controller's handler calls capture() and hands the report to
\* config.onError when one is configured.
ErrorEventKept ==
    /\ UNCHANGED <<ctlVars, envVars, domVars>>
    /\ UNCHANGED <<buffer, ctorCap, hist, nAdded>>
    /\ \E ev \in ErrorEvents, error \in ErrorInputs, random \in Randoms :
          /\ listeners[ev] = 1
          /\ LET report == HandlerReports(ev, error, random)[1] IN
             /\ ret' = [onError |-> captureOnErrorCalls(config, report)
                                    \o OnErrorCalls(<<report>>),
                        report |-> report,
                        op |-> "handler",
                        deep |-> Deref(report.actions, heap),
                        previous |-> <<>>]
             /\ capturedSinceAdd' = TRUE
             /\ capturesSinceChange' = Min(capturesSinceChange + 1, 2)
             /\ lastActions' = PlainActions(report.actions)

NextReport ==
    \/ Start
    \/ Stop
    \/ Clear
    \/ Cleanup
    \/ Click
    \/ ConsoleCallArgs
    \/ CaptureKept
    \/ ErrorEventKept
    \/ Tick

SpecReport == InitReport /\ [][NextReport]_vars

(***************************************************************************)
(* SpecFunctions: the functions of report assembly and the constructors,   *)
(* applied to inputs drawn from bounded sets; ret holds the call and what  *)
(* it returned.                                                             *)
(***************************************************************************)
\* now - timestamp, in milliseconds: both sides of every tier boundary.
Diffs ==
    {0, 1, 500, 999, 1000, 1999, 45000, 59999, 60000, 60999, 61000, 119999,
     120000, 125000, 3599999, 3600000, 3659999, 3660000, 7325000, 86400000}
Timestamps == {0, 1000, 1700000000}
Instants == {timestamp + diff : timestamp \in Timestamps, diff \in Diffs}

InitFunctions ==
    /\ buffer = CircularBuffer(1)
    /\ ctorCap = 1
    /\ hist = <<>>
    /\ ret = NoRet
    /\ nAdded = 0
    /\ \E t \in Instants : UnusedAt(t)

Returned(r) ==
    /\ ret' = r
    /\ UNCHANGED <<buffer, ctorCap, hist, nAdded, ctlVars, envVars, repVars, domVars>>

\* formatRelativeTime(timestamp, now) for an action recorded at or before now
FormatCall ==
    \E timestamp \in Timestamps :
       /\ timestamp <= now
       /\ Returned([now |-> now, timestamp |-> timestamp,
                    op |-> "formatRelativeTime", val |-> formatRelativeTime(timestamp, now)])

\* capture(error) on a controller that recorded nothing, constructed with
\* the user block `user`
CaptureCall ==
    \E error \in ErrorInputs \cup OtherErrorInputs, user \in UserInputs :
       Returned([error |-> error, user |-> user, op |-> "capture",
                 val |-> capture([config EXCEPT !.user = user], buffer, error,
                                 location, now, 0)])

\* new CircularBuffer(maxSize), new CircularBuffer(), new ErrorReplay(config)
GivenConfigs ==
    {<<>>, [trackClicks |-> FALSE]} \cup {[maxActions |-> n] : n \in -1..MaxCap}
ConstructCall ==
    \/ \E maxSize \in -1..MaxCap :
          Returned([maxSize |-> maxSize, op |-> "new CircularBuffer",
                    val |-> NewCircularBuffer(maxSize)])
    \/ Returned([maxSize |-> DefaultMaxSize, op |-> "new CircularBuffer",
                 val |-> NewCircularBuffer(DefaultMaxSize)])
    \/ \E given \in GivenConfigs :
          Returned([config |-> given, op |-> "new ErrorReplay",
                    val |-> ErrorReplay(given)])

NextFunctions == FormatCall \/ CaptureCall \/ ConstructCall

SpecFunctions == InitFunctions /\ [][NextFunctions]_vars

(***************************************************************************)
(* SpecDetectors: the detector factories called directly, as the package    *)
(* exports them.  cleanupFunctions lists the unregister callbacks the       *)
(* caller holds, in the order of creation; hist[i] counts the invocations   *)
(* of the i-th, 2 standing for two or more.  A detector's handlers are on   *)
(* the listener lists from its creation to the first invocation.            *)
(***************************************************************************)
DetectorKinds == {"click", "input", "navigation", "network", "console"}

createDetector(g, kind) ==
    CASE kind = "click" -> createClickDetector(g)
      [] kind = "input" -> createInputDetector(g, TrackAll)
      [] kind = "navigation" -> createNavigationDetector(g)
      [] kind = "network" -> createNetworkDetector(g)
      [] kind = "console" -> createConsoleDetector(g)
UnregisterOf(g, kind) ==
    CASE kind = "click" -> ClickCleanup
      [] kind = "input" -> InputCleanup(TrackAll)
      [] kind = "navigation" -> NavigationCleanup(g)
      [] kind = "network" -> NetworkCleanup(g)
      [] kind = "console" -> ConsoleCleanup(g)

\* An unregister callback whose handlers are no longer registered:
\* removeEventListener finds nothing to remove, the assignments are made.
CleanupEffectAgain(g, c) == [CleanupEffect(g, c) EXCEPT !.listeners = g.listeners]

InitDetectors ==
    /\ buffer = CircularBuffer(1)
    /\ ctorCap = 1
    /\ hist = <<>>
    /\ ret = NoRet
    /\ nAdded = 0
    /\ Unused

DetectorStep(g, cleanups, invoked, r) ==
    /\ patched' = g.patched
    /\ listeners' = g.listeners
    /\ cleanupFunctions' = cleanups
    /\ hist' = invoked
    /\ ret' = r
    /\ UNCHANGED <<buffer, ctorCap, nAdded, config, isRunning, errorHandler,
                   rejectionHandler, pendingFetch, xhr, location, currentPath,
                   now, domVars, repVars>>

DetectorCreate ==
    \E kind \in DetectorKinds :
       /\ Len(cleanupFunctions) < MaxDetectors
       /\ DetectorStep(createDetector(Browser, kind),
                       Append(cleanupFunctions, UnregisterOf(Browser, kind)),
                       Append(hist, 0),
                       [kind |-> kind, op |-> "create"])

\* the first invocation of a callback
DetectorUnregister ==
    \E i \in 1..Len(cleanupFunctions) :
       /\ hist[i] = 0
       /\ DetectorStep(CleanupEffect(Browser, cleanupFunctions[i]),
                       cleanupFunctions,
                       [hist EXCEPT ![i] = 1],
                       [i |-> i, op |-> "unregister"])

\* a later invocation of the same callback
DetectorUnregisterAgain ==
    \E i \in 1..Len(cleanupFunctions) :
       /\ hist[i] >= 1
       /\ DetectorStep(CleanupEffectAgain(Browser, cleanupFunctions[i]),
                       cleanupFunctions,
                       [hist EXCEPT ![i] = 2],
                       [i |-> i, op |-> "unregister again"])

NextDetectors == DetectorCreate \/ DetectorUnregister \/ DetectorUnregisterAgain

SpecDetectors == InitDetectors /\ [][NextDetectors]_vars

(***************************************************************************)
(* SpecSanitizer: the functions of sanitizer.ts applied to the fields of    *)
(* the form page; ret holds the last call and its result.                   *)
(***************************************************************************)
InitSanitizer ==
    /\ buffer = CircularBuffer(1)
    /\ ctorCap = 1
    /\ hist = <<>>
    /\ ret = NoRet
    /\ nAdded = 0
    /\ Unused

\* shouldSanitize(element, customPatterns) for the fields of the form page
\* and the lists of at most MaxPatterns of these patterns: '(' is no regex
\* and '[' no selector.
CustomPatterns == { <<"(">>, <<"[">>, <<"A", "c", "c", "t">>, <<"#", "q">> }
RECURSIVE PatternLists(_)
PatternLists(n) ==
    IF n = 0 THEN {<<>>}
    ELSE PatternLists(n - 1)
         \cup {Append(l, p) : l \in {x \in PatternLists(n - 1) : Len(x) = n - 1},
                              p \in CustomPatterns}
SanitizeCall ==
    \E f \in FormPage, patterns \in PatternLists(MaxPatterns) :
       Returned([element |-> f.el, op |-> "shouldSanitize",
                 val |-> shouldSanitize(f.el, patterns), patterns |-> patterns])

NextSanitizer == SanitizeCall

SpecSanitizer == InitSanitizer /\ [][NextSanitizer]_vars

(***************************************************************************)
(* SpecPreview: getSafeInputValue as the text detector calls it, for the    *)
(* text fields of the form page holding values of chosen lengths.           *)
(***************************************************************************)
\* A value of n characters that holds no digit.
Letters(n) == [i \in 1..n |-> "x"]

\* Values around the preview length, and values that look sensitive, one of
\* them beyond the preview.
ValueLengths ==
    {0, 1, PreviewLength - 1, PreviewLength, PreviewLength + 1, PreviewLength + 2,
     MaxValueLength}
Values ==
    {Letters(n) : n \in ValueLengths}
    \cup {SsnText, CardText, Letters(PreviewLength) \o <<" ">> \o SsnText}

\* The record handleEvent of the text detector builds for a blur of a text
\* field of the form page that holds `value`, through getSafeInputValue.
SafeValueCall ==
    \E f \in {x \in FormPage : IsTextTarget(x.el)}, value \in Values,
       patterns \in {<<>>, << <<"#", "q">> >>, << <<"(">> >>} :
       Returned([value |-> value, element |-> f.el, op |-> "getSafeInputValue",
                 val |-> TextInputAction(f.el, TextState(value), "blur",
                                         NoPreviousValues, patterns, now),
                 patterns |-> patterns])

NextPreview == SafeValueCall

SpecPreview == InitSanitizer /\ [][NextPreview]_vars

(***************************************************************************)
(* SpecClock: the controller tracking clicks and the network; a fetch call  *)
(* in flight remembers its startTime, and calls settle in any order.         *)
(***************************************************************************)
ConfigClicksNetwork ==
    [trackInputs |-> TrackNone, user |-> NoUser, maxActions |-> 2,
     trackClicks |-> TRUE, trackNavigation |-> FALSE, trackNetwork |-> TRUE,
     trackConsole |-> FALSE, sanitize |-> <<>>, onError |-> FALSE]

InitClock == InitWith({ConfigClicksNetwork}, PlainPage)

\* window.fetch(...) through the wrapper: const startTime = Date.now(), then
\* the await of originalFetch.
FetchCallTimed ==
    /\ patched["fetch"] > 0
    /\ Len(pendingFetch) < MaxInFlight
    /\ pendingFetch' = Append(pendingFetch, [wrappers |-> patched["fetch"],
                                             startTime |-> now])
    /\ UNCHANGED <<bufVars, ctlVars, repVars, domVars>>
    /\ UNCHANGED <<patched, listeners, xhr, location, currentPath, now>>

NextClock ==
    \/ Start \/ Stop \/ Click
    \/ FetchCallTimed \/ FetchSettle
    \/ CaptureKept \/ Tick

SpecClock == InitClock /\ [][NextClock]_vars

(***************************************************************************)
(* SpecPair: two controllers in one browser.  buffer, isRunning,            *)
(* cleanupFunctions, errorHandler, rejectionHandler and listeners hold one  *)
(* value per controller.  patched[f] is the function global f is now: the   *)
(* detectors whose wrappers it runs, innermost first, <<>> being the native *)
(* function (or a bound copy of it); a detector is <<controller, the call   *)
(* of start() that created it>>.  currentPath holds one path per navigation *)
(* detector.  hist lists the start() and stop() calls that found   *)
(* the controller stopped and running, in the order they were made.         *)
(***************************************************************************)
Ids == {"A", "B"}
Native == <<>>

ConfigPair ==
    [trackInputs |-> TrackAll, user |-> NoUser, maxActions |-> 1,
     trackClicks |-> TRUE, trackNavigation |-> TRUE, trackNetwork |-> TRUE,
     trackConsole |-> TRUE, sanitize |-> <<>>, onError |-> FALSE]

InitPair ==
    /\ config = ConfigPair
    /\ buffer = [c \in Ids |-> CircularBuffer(config.maxActions)]
    /\ ctorCap = config.maxActions
    /\ ret = NoRet
    /\ hist = <<>>
    /\ nAdded = 0
    /\ isRunning = [c \in Ids |-> FALSE]
    /\ cleanupFunctions = [c \in Ids |-> <<>>]
    /\ errorHandler = [c \in Ids |-> FALSE]
    /\ rejectionHandler = [c \in Ids |-> FALSE]
    /\ patched = [f \in Globals |-> Native]
    /\ listeners = [c \in Ids |-> [e \in Events |-> 0]]
    /\ pendingFetch = <<>>
    /\ xhr = NewXhr
    /\ location = "/a"
    /\ currentPath = <<>>
    /\ now = 0
    /\ document = PlainPage
    /\ heap = <<>>
    /\ previousValues = NoPreviousValues
    /\ lastActions = <<>>
    /\ capturedSinceAdd = FALSE
    /\ capturesSinceChange = 0

\* The browser as controller c finds it.
BrowserOf(c) == [patched |-> patched, listeners |-> listeners[c], calls |-> <<>>]

\* Detector d assigns its wrappers to the functions fns; each wrapper calls
\* the function it found there.
WrapBy(g, fns, d) ==
    [g EXCEPT !.patched = [f \in Globals |-> IF f \in fns THEN Append(@[f], d) ELSE @[f]]]

\* The three patching detectors of start(), created as detector d.
StartNavigationBy(cfg, st, d) ==
    IF cfg.trackNavigation
    THEN [g |-> AddListeners(WrapBy(st.g, {"pushState", "replaceState"}, d),
                             {"popstate", "hashchange"}),
          cleanups |-> Append(st.cleanups, NavigationCleanup(st.g))]
    ELSE st
StartNetworkBy(cfg, st, d) ==
    IF cfg.trackNetwork
    THEN [g |-> WrapBy(st.g, {"fetch", "xhrOpen", "xhrSend"}, d),
          cleanups |-> Append(st.cleanups, NetworkCleanup(st.g))]
    ELSE st
StartConsoleBy(cfg, st, d) ==
    IF cfg.trackConsole
    THEN [g |-> WrapBy(st.g, {"consoleError", "consoleWarn"}, d),
          cleanups |-> Append(st.cleanups, ConsoleCleanup(st.g))]
    ELSE st
StartDetectorsBy(cfg, st, d) ==
    StartConsoleBy(cfg, StartNetworkBy(cfg, StartNavigationBy(cfg,
        StartInputs(cfg, StartClicks(cfg, st)), d), d), d)

\* The wrappers of controller c that function chain runs.
RECURSIVE WrappersOf(_, _)
WrappersOf(chain, c) ==
    IF chain = <<>> THEN <<>>
    ELSE (IF Head(chain)[1] = c THEN <<Head(chain)>> ELSE <<>>)
         \o WrappersOf(Tail(chain), c)

RECURSIVE Total(_, _)
Total(items, ids) ==
    IF ids = {} THEN 0
    ELSE LET c == CHOOSE x \in ids : TRUE
         IN Len(items[c]) + Total(items, ids \ {c})

\* Every handler and wrapper that one host event reaches hands its record to
\* the addAction of its own controller: items[c] are the records controller
\* c is handed.  ret tells which buffers were added to.
Deliver(op, items, fresh, moved) ==
    /\ nAdded + Total(items, Ids) <= MaxAdds
    /\ buffer' = [c \in Ids |-> addAll(buffer[c], items[c])]
    /\ nAdded' = nAdded + Total(items, Ids)
    /\ ret' = [op |-> op,
               fresh |-> fresh,
               moved |-> moved,
               received |-> {c \in Ids : items[c] # <<>>}]

\* c.start()
PairStart ==
    \E c \in Ids :
       /\ IF isRunning[c]
          THEN /\ UNCHANGED hist
               /\ Deliver("start",
                          [x \in Ids |->
                              Copies(Len(WrappersOf(patched["consoleWarn"], x)),
                                     ConsoleRecord("warn", "ErrorReplay is already running",
                                                   now))],
                          TRUE, TRUE)
               /\ UNCHANGED <<isRunning, cleanupFunctions, errorHandler,
                              rejectionHandler, patched, listeners, currentPath>>
          ELSE LET d == <<c, Len(hist) + 1>>
                   st == StartDetectorsBy(config, [g |-> BrowserOf(c),
                                                   cleanups |-> cleanupFunctions[c]], d)
                   g2 == installErrorHandlers(st.g)
               IN /\ Len(hist) < MaxCalls
                  /\ hist' = Append(hist, <<"start", c>>)
                  /\ isRunning' = [isRunning EXCEPT ![c] = TRUE]
                  /\ cleanupFunctions' = [cleanupFunctions EXCEPT ![c] = st.cleanups]
                  /\ errorHandler' = [errorHandler EXCEPT ![c] = TRUE]
                  /\ rejectionHandler' = [rejectionHandler EXCEPT ![c] = TRUE]
                  /\ patched' = g2.patched
                  /\ listeners' = [listeners EXCEPT ![c] = g2.listeners]
                  /\ currentPath' = IF config.trackNavigation
                                    THEN [x \in DOMAIN currentPath \cup {d} |->
                                             IF x = d THEN PathOf(location)
                                             ELSE currentPath[x]]
                                    ELSE currentPath
                  /\ ret' = [op |-> "start"]
                  /\ UNCHANGED <<buffer, nAdded>>
       /\ UNCHANGED <<config, ctorCap, pendingFetch, xhr, location, now, domVars, repVars>>

\* c.stop()
PairStop ==
    \E c \in Ids :
       /\ ret' = [op |-> "stop"]
       /\ IF ~isRunning[c]
          THEN UNCHANGED <<hist, isRunning, cleanupFunctions, errorHandler,
                           rejectionHandler, patched, listeners>>
          ELSE LET g1 == RunCleanups(BrowserOf(c), cleanupFunctions[c])
                   g2 == removeErrorHandlers(g1, errorHandler[c], rejectionHandler[c])
               IN /\ Len(hist) < MaxCalls
                  /\ hist' = Append(hist, <<"stop", c>>)
                  /\ isRunning' = [isRunning EXCEPT ![c] = FALSE]
                  /\ cleanupFunctions' = [cleanupFunctions EXCEPT ![c] = <<>>]
                  /\ errorHandler' = [errorHandler EXCEPT ![c] = FALSE]
                  /\ rejectionHandler' = [rejectionHandler EXCEPT ![c] = FALSE]
                  /\ patched' = g2.patched
                  /\ listeners' = [listeners EXCEPT ![c] = g2.listeners]
       /\ UNCHANGED <<buffer, nAdded, config, ctorCap, pendingFetch, xhr, location,
                      currentPath, now, domVars, repVars>>

\* A click or a touchstart on the document.
PairClick ==
    /\ \E ev \in {"click", "touchstart"} :
          Deliver("click", [c \in Ids |-> Copies(listeners[c][ev], ClickRecord(now))],
                  TRUE, TRUE)
    /\ UNCHANGED <<hist, ctlVars, envVars, domVars, ctorCap, repVars>>

\* A change event on a field of the page.
PairInputEvent ==
    /\ \E f \in document :
       \E state \in f.states :
          Deliver("input",
                  [c \in Ids |->
                      (IF IsTextTarget(f.el)
                       THEN Copies(listeners[c]["change.text"],
                                   TextInputAction(f.el, state, "change", NoPreviousValues,
                                                   config.sanitize, now))
                       ELSE <<>>)
                      \o (IF IsCheckboxTarget(f.el)
                          THEN Copies(listeners[c]["change.checkbox"],
                                      CheckboxAction(f.el, state, now))
                          ELSE <<>>)
                      \o (IF IsSelectTarget(f.el)
                          THEN Copies(listeners[c]["change.select"],
                                      SelectAction(f.el, state, now))
                          ELSE <<>>)],
                  TRUE, TRUE)
    /\ UNCHANGED <<hist, ctlVars, envVars, domVars, ctorCap, repVars>>

\* The records the wrappers in chain hand over for a call with URL `to`:
\* each calls the function below it first, then recordNavigation with the
\* currentPath of its own detector.
RECURSIVE NavigationItems(_, _)
NavigationItems(chain, to) ==
    IF chain = <<>> THEN <<>>
    ELSE recordNavigation(currentPath[Head(chain)], to, now)
         \o NavigationItems(Tail(chain), to)

\* history.pushState / history.replaceState with a URL.
PairHistoryCall ==
    /\ \E fn \in {"pushState", "replaceState"}, to \in Paths :
          /\ location' = to
          /\ Deliver("navigation",
                     [c \in Ids |-> NavigationItems(WrappersOf(patched[fn], c), PathOf(to))],
                     TRUE, to # location)
          /\ currentPath' = [d \in DOMAIN currentPath |->
                                IF \E i \in 1..Len(patched[fn]) : patched[fn][i] = d
                                THEN PathOf(to) ELSE currentPath[d]]
    /\ UNCHANGED <<hist, ctlVars, domVars, ctorCap, repVars>>
    /\ UNCHANGED <<patched, listeners, pendingFetch, xhr, now>>

\* window.fetch(...): the wrappers entered now resume when it settles.
PairFetchCall ==
    /\ Len(pendingFetch) < MaxPending
    /\ pendingFetch' = Append(pendingFetch, [wrappers |-> patched["fetch"],
                                             issued |-> Len(hist)])
    /\ UNCHANGED <<bufVars, ctlVars, repVars, domVars>>
    /\ UNCHANGED <<patched, listeners, xhr, location, currentPath, now>>

\* The native fetch settles; fresh: no start() or stop() was called since
\* the request was issued.
PairFetchSettle ==
    /\ \E i \in 1..Len(pendingFetch), outcome \in {"resolve", "reject"} :
          LET item == IF outcome = "resolve"
                      THEN NetworkStatusRecord(200, now)
                      ELSE NetworkErrorRecord("Failed to fetch", now)
          IN /\ Deliver("network",
                        [c \in Ids |->
                            Copies(Len(WrappersOf(pendingFetch[i].wrappers, c)), item)],
                        pendingFetch[i].issued = Len(hist), TRUE)
             /\ pendingFetch' = RemoveAt(pendingFetch, i)
    /\ UNCHANGED <<hist, ctlVars, domVars, ctorCap, repVars>>
    /\ UNCHANGED <<patched, listeners, xhr, location, currentPath, now>>

\* console.error(...) or console.warn(...) by the application.
PairConsoleCall ==
    /\ \E level \in {"error", "warn"} :
          LET fn == IF level = "error" THEN "consoleError" ELSE "consoleWarn" IN
          Deliver("console",
                  [c \in Ids |-> Copies(Len(WrappersOf(patched[fn], c)),
                                        ConsoleRecord(level, "app message", now))],
                  TRUE, TRUE)
    /\ UNCHANGED <<hist, ctlVars, envVars, domVars, ctorCap, repVars>>

NextPair ==
    \/ PairStart \/ PairStop
    \/ PairClick \/ PairInputEvent \/ PairHistoryCall
    \/ PairFetchCall \/ PairFetchSettle \/ PairConsoleCall

SpecPair == InitPair /\ [][NextPair]_vars

(***************************************************************************)
(* SpecConsole: captureConsole of the console detector, handing its record  *)
(* to a buffer of capacity 1.  An argument of console.error / console.warn  *)
(* is a string, an Error with its message, or an object with its JSON text. *)
(***************************************************************************)
\* str.slice(0, n)
Prefix(str, n) == SubSeq(str, 1, Min(n, Len(str)))

\* parts.join(' ')
RECURSIVE Join(_)
Join(parts) ==
    IF parts = <<>> THEN <<>>
    ELSE IF Len(parts) = 1 THEN parts[1]
    ELSE parts[1] \o <<" ">> \o Join(Tail(parts))

StringArg(n) == [kind |-> "string", text |-> Letters(n)]
ErrorArg(n) == [kind |-> "Error", text |-> Letters(n)]
ObjectArg(n) == [kind |-> "object", text |-> Letters(n)]

\* What an argument contributes to the message: arg.message of an Error,
\* JSON.stringify(arg) of an object, String(arg) otherwise.
MessagePart(arg) == arg.text

\* What an argument contributes to args: the first 100 characters of a
\* string, the message of an Error, typeof arg otherwise.
ArgEntry(arg) ==
    CASE arg.kind = "string" -> Prefix(arg.text, ArgLimit)
      [] arg.kind = "Error" -> arg.text
      [] OTHER -> <<"o", "b", "j", "e", "c", "t">>

captureConsole(level, args, t) ==
    [type |-> "console",
     timestamp |-> t,
     level |-> level,
     message |-> Prefix(Join([i \in 1..Len(args) |-> MessagePart(args[i])]),
                        MessageLimit),
     args |-> [i \in 1..Min(ArgsLimit, Len(args)) |-> ArgEntry(args[i])]]

\* The arguments of the calls: short ones, ones at and beyond the limit of
\* an args entry, and ones that together pass the limit of the message.
ConsoleArgs ==
    {StringArg(n) : n \in {1, ArgLimit, ArgLimit + 1, MaxArgLength}}
    \cup {ErrorArg(n) : n \in {1, ArgLimit + 1}}
    \cup {ObjectArg(n) : n \in {2, ArgLimit + 1}}

\* console.error(...args) or console.warn(...args) through the wrapper, with
\* no, one or several arguments.
ConsoleCapture ==
    /\ \E level \in {"error", "warn"}, first \in ConsoleArgs, rest \in ConsoleArgs,
          k \in 0..MaxArgs :
          LET args == IF k = 0 THEN <<>> ELSE <<first>> \o Copies(k - 1, rest)
          IN buffer' = add(buffer, captureConsole(level, args, now))
    /\ UNCHANGED <<ret, ctorCap, hist, nAdded, ctlVars, envVars, domVars, repVars>>

NextConsole == ConsoleCapture

SpecConsole == InitSanitizer /\ [][NextConsole]_vars

(***************************************************************************)
(* SpecIdentifier, SpecPath: getElementIdentifier and getCSSPath.  An       *)
(* element is its attributes and `chain`, the levels from the element       *)
(* itself (chain[1]) up to the last element below the document body (or     *)
(* the root of a detached tree): per level the tagName, the id, how many    *)
(* children of its parent have its tagName (siblings, itself included; 0    *)
(* without a parent) and its place among them (index); isBody marks         *)
(* document.body, and a chain that reaches the body goes on to the html     *)
(* element.  An identifier is the list of the pieces of the string.         *)
(***************************************************************************)
toLowerCase(tagName) ==
    CASE tagName = "BUTTON" -> "button"
      [] tagName = "A" -> "a"
      [] tagName = "LABEL" -> "label"
      [] tagName = "DIV" -> "div"
      [] tagName = "INPUT" -> "input"
      [] tagName = "LI" -> "li"
      [] tagName = "BODY" -> "body"
      [] tagName = "HTML" -> "html"

IsSpace(ch) == ch \in {" ", "\t", "\n"}
RECURSIVE trimStart(_)
trimStart(s) == IF s # <<>> /\ IsSpace(Head(s)) THEN trimStart(Tail(s)) ELSE s
RECURSIVE trimEnd(_)
trimEnd(s) ==
    IF s # <<>> /\ IsSpace(s[Len(s)]) THEN trimEnd(SubSeq(s, 1, Len(s) - 1)) ELSE s
trim(s) == trimEnd(trimStart(s))

\* s.split(/\s+/) of a trimmed string: its words, [''] for ''
RECURSIVE FirstWord(_)
FirstWord(s) ==
    IF s = <<>> \/ IsSpace(Head(s)) THEN <<>> ELSE <<Head(s)>> \o FirstWord(Tail(s))
RECURSIVE split(_)
split(s) ==
    LET word == FirstWord(s)
        rest == trimStart(SubSeq(s, Len(word) + 1, Len(s)))
    IN IF rest = <<>> THEN <<word>> ELSE <<word>> \o split(rest)

\* parts.join(sep)
RECURSIVE join(_, _)
join(parts, sep) ==
    IF parts = <<>> THEN <<>>
    ELSE IF Len(parts) = 1 THEN parts[1]
    ELSE parts[1] \o <<sep>> \o join(Tail(parts), sep)

Ordinal(k) == <<"1", "2", "3", "4", "5", "6", "7", "8", "9">>[k]

\* A loop that walks on through the body.
RECURSIVE CSSPathFrom_ThroughBody(_, _, _)
CSSPathFrom_ThroughBody(chain, i, path) ==
    IF i > Len(chain) \/ Len(path) >= PathLimit THEN path
    ELSE LET current == chain[i]
             tag == toLowerCase(current.tagName)
         IN IF current.id # ""
            THEN << <<"#", current.id>> >> \o path
            ELSE CSSPathFrom_ThroughBody(chain, i + 1,
                    << IF current.siblings > 1
                       THEN <<tag, ":nth-child(", Ordinal(current.index), ")">>
                       ELSE <<tag>> >> \o path)

\* One turn of the loop of getCSSPath at level i with `path` built so far.
RECURSIVE CSSPathFrom(_, _, _)
CSSPathFrom(chain, i, path) ==
    IF i > Len(chain) \/ chain[i].isBody \/ Len(path) >= PathLimit THEN path
    ELSE LET current == chain[i]
             tag == toLowerCase(current.tagName)
         IN IF current.id # ""
            THEN << <<"#", current.id>> >> \o path
            ELSE CSSPathFrom(chain, i + 1,
                    << IF current.siblings > 1
                       THEN <<tag, ":nth-child(", Ordinal(current.index), ")">>
                       ELSE <<tag>> >> \o path)

\* The array `path` of getCSSPath when it leaves the loop, and the string
\* returned.
CSSPathSegments(element) == CSSPathFrom(element.chain, 1, <<>>)
getCSSPath(element) == join(CSSPathSegments(element), " > ")

Interactive == {"BUTTON", "A", "LABEL"}

\* getElementIdentifier that tries aria-label before the text of the element.
getElementIdentifierOf_AriaFirst(element) ==
    LET tagName == element.chain[1].tagName
        tag == toLowerCase(tagName)
        text == Prefix(trim(element.textContent), TextLimit)
    IN IF element.chain[1].id # ""
       THEN [identifier |-> <<tag, "#", element.chain[1].id>>]
       ELSE IF element.ariaLabel # <<>>
       THEN [identifier |-> <<tag, "[aria-label=\"">>
                            \o Prefix(element.ariaLabel, TextLimit) \o <<"\"]">>]
       ELSE IF tagName \in Interactive /\ text # <<>>
       THEN [text |-> text, identifier |-> <<tag, " \"">> \o text \o <<"\"">>]
       ELSE [identifier |-> getCSSPath(element)]

\* getElementIdentifier(element, captureComponents): identifier and text of
\* the result (component and componentPath come from the React detector and
\* are set before any rule is tried).
getElementIdentifierOf(element) ==
    LET tagName == element.chain[1].tagName
        tag == toLowerCase(tagName)
        text == Prefix(trim(element.textContent), TextLimit)
        classes == join(Prefix(split(trim(element.className)), ClassLimit), ".")
    IN IF element.chain[1].id # ""
       THEN [identifier |-> <<tag, "#", element.chain[1].id>>]
       ELSE IF element.hasDataset /\ element.testid # ""
       THEN [identifier |-> <<tag, "[data-testid=\"", element.testid, "\"]">>]
       ELSE IF element.hasDataset /\ element.component # ""
       THEN [identifier |-> <<tag, "[data-component=\"", element.component, "\"]">>]
       ELSE IF element.hasDataset /\ element.test # ""
       THEN [identifier |-> <<tag, "[data-test=\"", element.test, "\"]">>]
       ELSE IF element.hasDataset /\ element.cy # ""
       THEN [identifier |-> <<tag, "[data-cy=\"", element.cy, "\"]">>]
       ELSE IF element.testid # ""
       THEN [identifier |-> <<tag, "[data-testid=\"", element.testid, "\"]">>]
       ELSE IF tagName \in Interactive /\ text # <<>>
       THEN [text |-> text, identifier |-> <<tag, " \"">> \o text \o <<"\"">>]
       ELSE IF element.ariaLabel # <<>>
       THEN [identifier |-> <<tag, "[aria-label=\"">>
                            \o Prefix(element.ariaLabel, TextLimit) \o <<"\"]">>]
       ELSE IF element.name # ""
       THEN [identifier |-> <<tag, "[name=\"", element.name, "\"]">>]
       ELSE IF element.className # <<>> /\ classes # <<>>
       THEN [identifier |-> <<tag, ".">> \o classes]
       ELSE [identifier |-> getCSSPath(element)]

\* An element alone under the body.
BodyAndRoot(bodyId) ==
    << [index |-> 1, id |-> bodyId, tagName |-> "BODY", siblings |-> 1, isBody |-> TRUE],
       [index |-> 1, id |-> "", tagName |-> "HTML", siblings |-> 0, isBody |-> FALSE] >>
Alone(tagName, id) ==
    << [index |-> 1, id |-> id, tagName |-> tagName, siblings |-> 1, isBody |-> FALSE] >>
    \o BodyAndRoot("")

ThreeClasses == <<"c", "1", " ", "c", "2", " ", "c", "3">>

\* Every combination of the attributes, present or absent, on a button and
\* on a div.
AttributeCombinations ==
    { [name |-> name, className |-> className, chain |-> Alone(tagName, id),
       textContent |-> textContent, ariaLabel |-> ariaLabel, hasDataset |-> TRUE,
       testid |-> testid, component |-> component, test |-> test,
       cy |-> cy] :
         tagName \in {"BUTTON", "DIV"}, id \in {"", "i"}, testid \in {"", "t"},
         component \in {"", "C"}, test \in {"", "e"}, cy \in {"", "y"},
         textContent \in {<<>>, <<" ", "O", "K", " ">>},
         ariaLabel \in {<<>>, <<"o", "k">>}, name \in {"", "n"},
         className \in {<<>>, ThreeClasses} }

Bare(tagName) ==
    [name |-> "", className |-> <<>>, chain |-> Alone(tagName, ""),
     textContent |-> <<>>, ariaLabel |-> <<>>, hasDataset |-> TRUE, testid |-> "",
     component |-> "", test |-> "", cy |-> ""]

\* Values at the edges: blank and long text, a long aria-label, blank and
\* padded class names, the other interactive tags, an element without
\* dataset.
EdgeElements ==
    { [Bare("BUTTON") EXCEPT !.textContent = <<" ", "\n">>, !.name = "n"],
      [Bare("A") EXCEPT !.textContent = Letters(TextLimit + 2), !.ariaLabel = <<"o", "k">>],
      [Bare("LABEL") EXCEPT !.textContent = <<"O", "K">>, !.className = ThreeClasses],
      [Bare("INPUT") EXCEPT !.textContent = <<"O", "K">>, !.ariaLabel = Letters(TextLimit + 2)],
      [Bare("DIV") EXCEPT !.className = <<" ", " ">>],
      [Bare("DIV") EXCEPT !.className = <<" ", "c", "1", " ", " ", "c", "2", " ">>],
      [Bare("DIV") EXCEPT !.className = <<"c", "1">>],
      [Bare("DIV") EXCEPT !.hasDataset = FALSE, !.testid = "t", !.name = "n"] }

Elements == AttributeCombinations \cup EdgeElements

\* getElementIdentifier(element)
IdentifierCall ==
    /\ \E element \in Elements :
          ret' = [element |-> element,
                  op |-> "getElementIdentifier",
                  val |-> getElementIdentifierOf(element)]
    /\ UNCHANGED <<buffer, ctorCap, hist, nAdded, ctlVars, envVars, domVars, repVars>>

NextIdentifier == IdentifierCall

\* Elements n levels below the body, or n levels deep in a detached tree:
\* ids on at most two of the levels, and same-tag siblings on no level, on
\* every level or on every other level.
SiblingModes == {"none", "all", "odd"}
HasSiblings(mode, i) == mode = "all" \/ (mode = "odd" /\ i % 2 = 1)
IdOfLevel(i) == <<"a", "b", "c", "d", "e", "f", "g", "h", "i">>[i]
LevelsOf(n, ids, mode, attached) ==
    [i \in 1..n |->
        [index |-> IF HasSiblings(mode, i) THEN 2 ELSE 1,
         id |-> IF i \in ids THEN IdOfLevel(i) ELSE "",
         tagName |-> IF i % 2 = 1 THEN "LI" ELSE "DIV",
         siblings |-> IF i = n /\ ~attached THEN 0
                      ELSE IF HasSiblings(mode, i) THEN 2 ELSE 1,
         isBody |-> FALSE]]
PathElements ==
    { [Bare("DIV") EXCEPT !.chain =
          LevelsOf(n, ids, mode, attached)
          \o (IF attached THEN BodyAndRoot(IF mode = "odd" THEN "page" ELSE "")
              ELSE <<>>)] :
         n \in 1..MaxDepth, ids \in {s \in SUBSET (1..MaxDepth) : Cardinality(s) <= 2},
         mode \in SiblingModes, attached \in BOOLEAN }
    \cup {[Bare("BODY") EXCEPT !.chain = BodyAndRoot("")]}

\* getCSSPath(element)
PathCall ==
    /\ \E element \in PathElements :
          ret' = [element |-> element,
                  op |-> "getCSSPath",
                  val |-> CSSPathSegments(element)]
    /\ UNCHANGED <<buffer, ctorCap, hist, nAdded, ctlVars, envVars, domVars, repVars>>

NextPath == PathCall

SpecPath == InitSanitizer /\ [][NextPath]_vars

SpecIdentifier == InitSanitizer /\ [][NextIdentifier]_vars

(***************************************************************************)
(* SpecUrl: sanitizeUrl of the network detector, as the fetch wrapper calls *)
(* it.  A URL as the caller wrote it is [scheme, host, path, query,         *)
(* fragment]: scheme "" for a URL relative to the origin, host a list of    *)
(* characters, query a list of <<name, value>>.  A string is the list of    *)
(* its pieces.                                                              *)
(***************************************************************************)
REDACTED == "%5BREDACTED%5D"   \* '[REDACTED]' as URLSearchParams serializes it

sensitiveParams == {"token", "api_key", "apikey", "key", "secret", "password",
                    "passwd", "auth", "authorization", "access_token",
                    "refresh_token"}

\* The text of a query: '' when empty, else '?' and name=value joined by '&'.
RECURSIVE PairsText(_)
PairsText(query) ==
    IF query = <<>> THEN <<>>
    ELSE <<query[1][1], "=", query[1][2]>>
         \o (IF Len(query) > 1 THEN <<"&">> ELSE <<>>)
         \o PairsText(Tail(query))
SearchText(query) == IF query = <<>> THEN <<>> ELSE <<"?">> \o PairsText(query)

\* The URL as the string the caller passed.
UrlText(url) ==
    (IF url.scheme # "" THEN <<url.scheme, "//">> \o url.host ELSE <<>>)
    \o <<url.path>> \o SearchText(url.query)
    \o (IF url.fragment # "" THEN <<"#", url.fragment>> ELSE <<>>)

\* new URL(url, window.location.origin) throws: an absolute URL whose host
\* is empty or holds a character no host may hold.
ParseThrows(url) ==
    /\ url.scheme # ""
    /\ \/ url.host = <<>>
       \/ \E i \in 1..Len(url.host) : url.host[i] \in {" ", "<", ">", "^", "|"}

\* searchParams.has(name)
hasParam(query, name) == \E i \in 1..Len(query) : query[i][1] = name

\* searchParams.set(name, value): the first parameter of that name gets the
\* value, the others of that name are removed.
RECURSIVE setParam(_, _, _, _)
setParam(query, name, value, seen) ==
    IF query = <<>> THEN <<>>
    ELSE IF query[1][1] # name
    THEN <<query[1]>> \o setParam(Tail(query), name, value, seen)
    ELSE IF seen THEN setParam(Tail(query), name, value, TRUE)
    ELSE << <<name, value>> >> \o setParam(Tail(query), name, value, TRUE)

\* for (const param of sensitiveParams) if (has(param)) set(param, '[REDACTED]')
RECURSIVE redactAll(_, _)
redactAll(query, params) ==
    IF params = {} THEN query
    ELSE LET param == CHOOSE p \in params : TRUE
         IN redactAll(IF hasParam(query, param)
                      THEN setParam(query, param, REDACTED, FALSE)
                      ELSE query,
                      params \ {param})

\* sanitizeUrl(url): pathname + search of the parsed URL, its sensitive
\* parameters redacted; the catch branch returns the string it was given.
sanitizeUrl(url) ==
    IF ParseThrows(url) THEN UrlText(url)
    ELSE <<url.path>> \o SearchText(redactAll(url.query, sensitiveParams))

ParamNames == {"token", "api_key", "q"}
ParamValues == {"s3cret", "1"}
QueriesOf(n) ==
    [1..n -> {<<name, value>> : name \in ParamNames, value \in ParamValues}]
Urls ==
    { [path |-> "/a", query |-> query, scheme |-> origin[1], host |-> origin[2],
       fragment |-> fragment] :
         origin \in { <<"", <<>> >>,
                      <<"https:", <<"a", "p", "i", ".", "e", "x">> >>,
                      <<"https:", <<"a", "p", "i", " ", "e", "x">> >> },
         query \in UNION {QueriesOf(n) : n \in 0..MaxParams},
         fragment \in {"", "top"} }

\* fetch(url) through the wrapper, settled: the wrapper hands its record to
\* onAction.  A URL that cannot be parsed makes the native fetch reject.
UrlFetch ==
    /\ \E url \in Urls, outcome \in {"resolve", "reject"} :
          /\ ParseThrows(url) => outcome = "reject"
          /\ buffer' = add(buffer,
                 IF outcome = "resolve"
                 THEN [type |-> "network", timestamp |-> now, status |-> 200,
                       method |-> "GET", url |-> sanitizeUrl(url)]
                 ELSE [type |-> "network", timestamp |-> now, method |-> "GET",
                       error |-> "Failed to fetch", url |-> sanitizeUrl(url)])
          /\ ret' = [url |-> url, op |-> "fetch"]
    /\ UNCHANGED <<ctorCap, hist, nAdded, ctlVars, envVars, domVars, repVars>>

NextUrl == UrlFetch

SpecUrl == InitSanitizer /\ [][NextUrl]_vars

(***************************************************************************)
(* Claims about the buffer (SpecBuffer).                                    *)
(***************************************************************************)
\* C1: after n adds of distinct records with no clear() in between, getAll()
\* is exactly the last c of them in insertion order when n >= c, and all n of
\* them in insertion order when n < c.
C1_BoundedFifo ==
    LET n == Len(hist)
        c == ctorCap
    IN /\ n >= c => getAll(buffer) = SubSeq(hist, n - c + 1, n)
       /\ n < c => getAll(buffer) = hist

\* C1 witness: capacity 3 after add 1, 2, 3, 4 holds [2, 3, 4].
C1_Witness ==
    /\ ctorCap = 3
    /\ hist = <<1, 2, 3, 4>>
    /\ getAll(buffer) = <<2, 3, 4>>

\* C2: in every state add(), clear(), getAll() and getLast() lead to,
\* 0 <= size() <= c and capacity() = c for the c of construction, isFull()
\* holds exactly when size() = c and isEmpty() exactly when size() = 0.
C2_CapacityInvariant ==
    /\ 0 <= size(buffer)
    /\ size(buffer) <= ctorCap
    /\ capacity(buffer) = ctorCap
    /\ isFull(buffer) <=> (size(buffer) = ctorCap)
    /\ isEmpty(buffer) <=> (size(buffer) = 0)

\* C2 witness: a full buffer that has evicted a record, after a getLast().
C2_Witness ==
    /\ isFull(buffer)
    /\ Len(hist) > ctorCap
    /\ ret.op = "getLast"

(***************************************************************************)
(* Claims about the controller (Spec).                                      *)
(***************************************************************************)
\* C4: while the controller is stopped no record is added to its buffer,
\* whatever the host does: a step taken in a state where isRunning is false
\* adds nothing, the completion of a fetch or of an XMLHttpRequest issued
\* while running included.
C4_NoRecordWhileStopped ==
    [][~isRunning => (nAdded' = nAdded /\ buffer' = buffer)]_vars

\* C5: stop() leaves the buffer contents unchanged, whether the controller
\* is running or stopped: getActions() after it is getActions() before it.
C5_StopKeepsBuffer ==
    [][Stop => (getAll(buffer') = getAll(buffer) /\ size(buffer') = size(buffer))]_vars

\* C5 witness: a controller whose sources never record late, stopped, with
\* both records it buffered while running still in the buffer.
C5_Witness ==
    /\ config = ConfigClicksConsole
    /\ ~isRunning
    /\ patched["consoleWarn"] = 0
    /\ size(buffer) = 2
    /\ Len(getAll(buffer)) = 2

\* C6: capture(error), called by the application or by the global error
\* handlers, leaves the buffer (slots, order, size, the records themselves,
\* none of which gets a relativeTime), isRunning and the unregister callbacks
\* as they were.
C6_CaptureFrame ==
    [][(Capture \/ ErrorEvent) =>
          /\ buffer' = buffer
          /\ isRunning' = isRunning
          /\ cleanupFunctions' = cleanupFunctions
          /\ \A i \in 1..Len(getAll(buffer')) :
                "relativeTime" \notin DOMAIN getAll(buffer')[i]]_vars

\* C6 witness: a running controller with records and callbacks after a capture.
C6_Witness ==
    /\ isRunning
    /\ cleanupFunctions # <<>>
    /\ capturedSinceAdd
    /\ capturesSinceChange >= 1
    /\ size(buffer) > 0
    /\ lastActions = getAll(buffer)

\* C7 as stated: a capture that follows an earlier capture with no add in
\* between reports the same actions, relativeTime aside.
C7_SameActionsNoAdd ==
    [][(capturedSinceAdd /\ (Capture \/ ErrorEvent)) =>
          lastActions' = lastActions]_vars

\* C7 amended: a capture that follows an earlier capture with no add and no
\* clear() or cleanup() in between reports the same actions, relativeTime
\* aside.
C7_SameActionsNoChange ==
    [][(capturesSinceChange >= 1 /\ (Capture \/ ErrorEvent)) =>
          lastActions' = lastActions]_vars

\* C7 witness: two captures of a nonempty buffer with no add or clear
\* between them, at a later instant than the buffered record.
C7_Witness ==
    /\ capturesSinceChange = 2
    /\ lastActions # <<>>
    /\ now > lastActions[1].timestamp

\* C8: in every state, running or stopped, the actions of the report
\* capture() builds are the buffer's getAll() in the same order with the same
\* fields, each with a relativeTime added; and the actions of the last report
\* made since the buffer last changed are what the buffer holds.
C8_ReportIsSnapshot ==
    /\ \A error \in ErrorInputs, random \in Randoms :
          LET report == capture(config, buffer, error, location, now, random)
              all == getAll(buffer)
          IN /\ Len(report.actions) = Len(all)
             /\ \A i \in 1..Len(all) :
                   /\ WithoutRelativeTime(report.actions[i]) = all[i]
                   /\ report.actions[i].relativeTime =
                         formatRelativeTime(all[i].timestamp, now)
    /\ capturesSinceChange >= 1 => lastActions = getAll(buffer)

\* C8 witness: a stopped controller, with nothing pending that could still
\* record, whose report after the stop holds both buffered records.
C8_Witness ==
    /\ config = ConfigClicksConsole
    /\ ~isRunning
    /\ capturesSinceChange >= 1
    /\ Len(lastActions) = 2
    /\ lastActions = getAll(buffer)

\* The number of unregister callbacks of one category the controller holds.
CallbacksOf(kind) ==
    Cardinality({i \in 1..Len(cleanupFunctions) : cleanupFunctions[i].kind = kind})

\* C9: while isActive() the controller holds exactly one unregister callback
\* for each enabled category and none for a disabled one; while not active it
\* holds none.
C9_OneCallbackPerCategory ==
    /\ isActive =>
          \A k \in 1..Len(Categories) :
             CallbacksOf(Categories[k]) =
                (IF Enabled(config, Categories[k]) THEN 1 ELSE 0)
    /\ ~isActive => cleanupFunctions = <<>>

\* C9 witness: all five categories running again after an earlier stop (a
\* request sent before that stop is still in flight).
C9_Witness ==
    /\ isRunning
    /\ Len(cleanupFunctions) = 5
    /\ xhr.listener \in {"staleData", "staleNoData"}

\* C10: start() on a running controller changes nothing: isRunning, the
\* unregister callbacks, the error handlers, what is installed in the browser
\* and the buffer are as before.
C10_StartWhileRunningNoOp ==
    [][(isRunning /\ Start) =>
          /\ isRunning' = isRunning
          /\ cleanupFunctions' = cleanupFunctions
          /\ errorHandler' = errorHandler
          /\ rejectionHandler' = rejectionHandler
          /\ patched' = patched
          /\ listeners' = listeners
          /\ getAll(buffer') = getAll(buffer)]_vars

\* C11: stop() on a running controller leaves it stopped, invokes each
\* registered unregister callback exactly once (so nothing the controller
\* installed stays in the browser) and leaves no callback registered; stop()
\* on a stopped controller invokes no callback and changes nothing.
C11_StopInvokesEachOnce ==
    [][Stop =>
          IF isRunning
          THEN LET g1 == RunCleanups(Browser, cleanupFunctions)
               IN /\ ~isRunning'
                  /\ cleanupFunctions' = <<>>
                  /\ g1.calls = cleanupFunctions
                  /\ patched' = g1.patched
                  /\ \A f \in Globals : patched'[f] = 0
                  /\ \A e \in Events : listeners'[e] = 0
          ELSE UNCHANGED vars]_vars

\* C11 witness: a controller that recorded something and was then stopped:
\* no callback is left and nothing of it is left in the browser.
C11_Witness ==
    /\ ~isRunning
    /\ nAdded > 0
    /\ cleanupFunctions = <<>>
    /\ \A f \in Globals : patched[f] = 0
    /\ \A e \in Events : listeners[e] = 0

\* C12: clear() may be called running or stopped; it empties the buffer
\* (size() 0, getAll() empty, capacity() as before) and leaves isRunning and
\* the unregister callbacks as they were; under any adds that follow, the
\* cleared buffer returns what a newly constructed buffer of the same
\* capacity returns.
C12_ClearResetsBuffer ==
    [][Clear =>
          /\ size(buffer') = 0
          /\ getAll(buffer') = <<>>
          /\ capacity(buffer') = capacity(buffer)
          /\ isRunning' = isRunning
          /\ cleanupFunctions' = cleanupFunctions
          /\ \A k \in 0..(MaxCap + 1) :
                LET items == [i \in 1..k |-> ClickRecord(i)]
                    cleared == addAll(buffer', items)
                    fresh == addAll(CircularBuffer(capacity(buffer)), items)
                IN /\ getAll(cleared) = getAll(fresh)
                   /\ size(cleared) = size(fresh)]_vars

\* C12 witness: a running controller whose buffer is empty after it had a
\* record, with its callbacks still registered.
C12_Witness ==
    /\ isRunning
    /\ cleanupFunctions # <<>>
    /\ nAdded > 0
    /\ size(buffer) = 0
    /\ hist = <<>>

\* The controller and the browser as construction leaves them.
AsConstructed ==
    /\ ~isRunning
    /\ buffer = CircularBuffer(config.maxActions)
    /\ cleanupFunctions = <<>>
    /\ ~errorHandler
    /\ ~rejectionHandler
    /\ \A f \in Globals : patched[f] = 0
    /\ \A e \in Events : listeners[e] = 0

\* C13: cleanup() from any state leaves the controller stopped with an
\* empty buffer, no unregister callbacks and no global error handlers;
\* cleanup() called again changes nothing and invokes no callback a second
\* time; the controller and the browser are as construction left them, so a
\* later start() builds what the first start() built.
C13_CleanupReleasesAll ==
    [][Cleanup =>
          /\ ~isRunning'
          /\ size(buffer') = 0
          /\ getAll(buffer') = <<>>
          /\ cleanupFunctions' = <<>>
          /\ ~errorHandler' /\ ~rejectionHandler'
          /\ listeners'["error"] = 0 /\ listeners'["unhandledrejection"] = 0
          /\ stopCalls' = <<>>
          /\ AsConstructed'
          /\ AsConstructed =>
                /\ stopCalls = <<>>
                /\ UNCHANGED <<buffer, ctlVars, envVars, domVars>>]_vars

\* C13 witness: a controller that ran and recorded, after cleanup().
C13_Witness ==
    /\ AsConstructed
    /\ nAdded > 0
    /\ hist = <<>>
    /\ xhr.listener \in {"staleData", "staleNoData"}

C21_NavigationDedup ==
    /\ [](\A i \in 1..Len(getAll(buffer)) :
            getAll(buffer)[i].type = "navigation"
               => getAll(buffer)[i].from # getAll(buffer)[i].to)
    /\ [][((HistoryCall \/ PopState \/ HashChange) /\ currentPath' = currentPath)
            => getAll(buffer') = getAll(buffer)]_vars

\* C21 witness: a navigation record made by a fragment change is buffered,
\* and its destination is the path the running detector tracks.
C21_Witness ==
    /\ isRunning
    /\ \E i \in 1..Len(getAll(buffer)) :
          /\ getAll(buffer)[i].type = "navigation"
          /\ getAll(buffer)[i].to = currentPath
          /\ getAll(buffer)[i].to[2] = "#h"

\* C26: each observed request, a fetch call that settles or a send of an
\* XMLHttpRequest opened and sent under the live detector that finishes, adds
\* exactly one network record, which has either a status or an error and
\* not both.
C26_OneRecordPerRequest ==
    [][(FetchSettle \/ (XhrDone /\ xhr.listener = "live" /\ xhr.data)) =>
          /\ nAdded' = nAdded + 1
          /\ LET action == getAll(buffer')[Len(getAll(buffer'))]
             IN /\ action.type = "network"
                /\ ("status" \in DOMAIN action) # ("error" \in DOMAIN action)]_vars

\* C40: in every reachable state of a buffer of capacity c, head and tail
\* are in 0..c-1, head = (tail + count) mod c, the count slots from tail on
\* hold records and getAll() has size() elements; add() moves head one slot
\* on in every call and tail one slot on only when the buffer was full.
C40_RingInvariant ==
    /\ [](LET c == buffer.maxSize
          IN /\ c = ctorCap
             /\ buffer.head \in 0..(c - 1)
             /\ buffer.tail \in 0..(c - 1)
             /\ buffer.count \in 0..c
             /\ buffer.head = (buffer.tail + buffer.count) % c
             /\ \A k \in 0..(buffer.count - 1) :
                   buffer.buffer[(buffer.tail + k) % c] # undefined
             /\ Len(getAll(buffer)) = size(buffer))
    /\ [][BufAdd =>
            /\ buffer'.head = (buffer.head + 1) % buffer.maxSize
            /\ buffer'.tail = IF isFull(buffer)
                              THEN (buffer.tail + 1) % buffer.maxSize
                              ELSE buffer.tail]_vars

\* A full buffer of capacity above 1 after an eviction: tail has moved and
\* head has caught up with it.
C40_Witness ==
    /\ ret.op = "add"
    /\ ctorCap > 1
    /\ isFull(buffer)
    /\ Len(hist) > ctorCap
    /\ buffer.tail > 0
    /\ buffer.head = buffer.tail

\* C35: between the calls of the controller its 'error' and
\* 'unhandledrejection' handlers are on the window exactly when isActive()
\* is true, one of each kind and never more.
C35_HandlersIffActive ==
    /\ errorHandler = isActive
    /\ rejectionHandler = isActive
    /\ listeners["error"] = (IF isActive THEN 1 ELSE 0)
    /\ listeners["unhandledrejection"] = (IF isActive THEN 1 ELSE 0)

\* The controller is running with one handler of each kind installed, has
\* recorded and has captured.
C35_Witness ==
    /\ isActive
    /\ listeners["error"] = 1
    /\ listeners["unhandledrejection"] = 1
    /\ nAdded > 0
    /\ capturedSinceAdd

\* C18: for every n >= 0, getLast(n) returns the last min(n, size()) records
\* of getAll(), in order: nothing for n = 0, all of them for n > size()
\* (SpecBuffer).
C18_GetLastIsSuffix ==
    ret.op = "getLast" =>
       LET all == getAll(buffer)
           k == Min(ret.n, size(buffer))
       IN /\ Len(ret.val) = k
          /\ ret.val = SubSeq(all, Len(all) - k + 1, Len(all))
          /\ (ret.n = 0 => ret.val = <<>>)
          /\ (ret.n > size(buffer) => ret.val = all)

\* C22: getAll(), getLast(), size(), isEmpty(), isFull() and capacity(), and
\* a write by the caller to an array getAll() or getLast() returned, leave
\* the buffer as it was: the same record is evicted by the next add() and
\* every later getAll() returns what it would have returned (SpecBuffer).
C22_QueriesArePure ==
    [][(BufGetAll \/ BufGetLast \/ BufQuery \/ BufWriteReturned) =>
          /\ buffer' = buffer
          /\ getAll(buffer') = getAll(buffer)
          /\ getAll(add(buffer', 0)) = getAll(add(buffer, 0))]_vars

\* C22 witness: the caller wrote to a returned array of a full buffer that
\* has evicted records, and the buffer still holds the last records added.
C22_Witness ==
    /\ ret.op = "written"
    /\ isFull(buffer)
    /\ Len(hist) > ctorCap
    /\ getAll(buffer) = LastK(hist, ctorCap)

(***************************************************************************)
(* Claims about report assembly and construction (SpecFunctions).          *)
(***************************************************************************)
\* C15: for diff = now - timestamp >= 0, formatRelativeTime returns '0s'
\* when diff = 0, '-{s}s' with s = floor(diff / 1000) when diff < 60000,
\* '-{m}m {s}s' (without the seconds term when it is 0) when diff < 3600000,
\* and '-{h}h {m}m' otherwise, every number floored.
C15_RelativeTimeTiers ==
    ret.op = "formatRelativeTime" =>
       LET diff == ret.now - ret.timestamp
           s == diff \div 1000
           m == diff \div 60000
           h == diff \div 3600000
       IN ret.val =
             IF diff = 0 THEN <<"0s">>
             ELSE IF diff < 60000 THEN <<"-", s, "s">>
             ELSE IF diff < 3600000
                  THEN IF s % 60 = 0 THEN <<"-", m, "m">>
                       ELSE <<"-", m, "m ", s % 60, "s">>
             ELSE <<"-", h, "h ", m % 60, "m">>

\* C16: capture() never raises, whatever it is handed: an Error gives
\* error = {message, type = the name of its concrete kind, stack}; a string
\* gives {message = the string, type 'Error'} without stack; any other value
\* gives {message = its string coercion, type 'Unknown'} without stack.
C16_CaptureNormalisesTotally ==
    ret.op = "capture" =>
       /\ ~HasThrown(ret.val)
       /\ ret.val.error =
             IF ret.error.isError
             THEN [type |-> ret.error.name, message |-> ret.error.message,
                   stack |-> ret.error.stack]
             ELSE IF ret.error.isString
             THEN [type |-> "Error", message |-> ret.error.text]
             ELSE [type |-> "Unknown", message |-> ret.error.text]

\* C17: constructing a buffer or a controller with a capacity below 1 fails
\* with an error and gives no instance; every capacity of 1 or more gives an
\* instance whose buffer is empty and has that capacity; a controller
\* constructed without maxActions has capacity 50.
C17_ConstructionByCapacity ==
    /\ ret.op = "new CircularBuffer" =>
          IF ret.maxSize < 1 THEN HasThrown(ret.val)
          ELSE /\ ~HasThrown(ret.val)
               /\ size(ret.val) = 0
               /\ getAll(ret.val) = <<>>
               /\ capacity(ret.val) = ret.maxSize
    /\ ret.op = "new ErrorReplay" =>
          LET c == IF "maxActions" \in DOMAIN ret.config
                   THEN ret.config.maxActions ELSE 50
          IN IF c < 1 THEN HasThrown(ret.val)
             ELSE /\ ~HasThrown(ret.val)
                  /\ size(ret.val.buffer) = 0
                  /\ getAll(ret.val.buffer) = <<>>
                  /\ capacity(ret.val.buffer) = c
                  /\ ~ret.val.isRunning

\* C17 witness: a controller constructed without maxActions, with its empty
\* buffer of capacity 50.
C17_Witness ==
    /\ ret.op = "new ErrorReplay"
    /\ "maxActions" \notin DOMAIN ret.config
    /\ ~HasThrown(ret.val)
    /\ capacity(ret.val.buffer) = 50
    /\ isEmpty(ret.val.buffer)

\* C25: a report has a user field exactly when the controller was
\* configured with a user block, an empty one included, and the field is
\* then the configured block itself.
C25_UserPassedThrough ==
    (ret.op = "capture" /\ ~HasThrown(ret.val)) =>
        IF ret.user = NoUser
        THEN "user" \notin DOMAIN ret.val
        ELSE "user" \in DOMAIN ret.val /\ ret.val.user = ret.user

\* A report made with an empty user block configured carries that block.
C25_Witness ==
    /\ ret.op = "capture"
    /\ ~HasThrown(ret.val)
    /\ ret.user = EmptyUserBlock
    /\ "user" \in DOMAIN ret.val
    /\ ret.val.user = EmptyUserBlock

\* The list without the patterns that throw.
WellFormed(patterns) == SelectSeq(patterns, LAMBDA s : ~Malformed(s))

\* C28: for every field and every pattern list, shouldSanitize returns what
\* it returns for the list with the malformed patterns removed, wherever
\* they sit in the list.
C28_MalformedPatternsSkipped ==
    ret.op = "shouldSanitize" =>
       /\ ret.val \in BOOLEAN
       /\ ret.val = shouldSanitize(ret.element, WellFormed(ret.patterns))

\* A field that is sensitive only by a caller's pattern, which comes after a
\* malformed one and before another.
C28_Witness ==
    /\ ret.op = "shouldSanitize"
    /\ ret.val = TRUE
    /\ Len(ret.patterns) = 3
    /\ Malformed(ret.patterns[1])
    /\ ~Malformed(ret.patterns[2])
    /\ Malformed(ret.patterns[3])
    /\ ~shouldSanitize(ret.element, <<>>)

C30_ConsoleRecordBounded ==
    \A i \in 1..Len(getAll(buffer)) :
       LET action == getAll(buffer)[i]
       IN action.type = "console" =>
             /\ action.level \in {"error", "warn"}
             /\ Len(action.message) <= 500
             /\ Len(action.args) <= 5
             /\ \A j \in 1..Len(action.args) : Len(action.args[j]) <= 100

C20_ReportOwnedByCaller ==
    ret.op = "capture" =>
       /\ Deref(ret.report.actions, heap) = ret.deep
       /\ ActionRefs(ret.report.actions) \cap ActionRefs(getAll(buffer)) = {}

\* C36: capture(error) called by the application returns the report and
\* hands nothing to config.onError; a report reaches config.onError only
\* from the handler of an uncaught error or an unhandled rejection, once.
C36_OnErrorOnlyFromHandlers ==
    /\ ret.op = "capture" =>
          /\ ~HasThrown(ret.report)
          /\ ret.onError = <<>>
    /\ ret.op = "handler" => ret.onError = <<ret.report>>

\* Both have happened with onError configured: a direct capture() after the
\* handler has run.
C36_Witness ==
    /\ config.onError
    /\ isRunning
    /\ ret.op = "capture"
    /\ ret.onError = <<>>
    /\ capturesSinceChange = 2

(***************************************************************************)
(* Claims about the detectors used directly (SpecDetectors).                *)
(***************************************************************************)
\* C23: invoking a detector's unregister callback a second time, whatever
\* detectors were created in between, leaves the patched globals and the
\* listener lists exactly as they were just before that invocation.
C23_SecondUnregisterNoEffect ==
    [][DetectorUnregisterAgain => (patched' = patched /\ listeners' = listeners)]_vars

(***************************************************************************)
(* Claims about the input sources (SpecInput).                              *)
(***************************************************************************)
\* What the field held when the record was built: the value of a text field,
\* the text of the selected option, the state of a checkbox.
RawValue(origin) ==
    IF IsSelectTarget(origin.field)
    THEN (IF origin.state.text # <<>> THEN origin.state.text ELSE origin.state.value)
    ELSE IF IsCheckboxTarget(origin.field)
    THEN (IF origin.state.checked THEN <<"c", "h", "e", "c", "k", "e", "d">>
          ELSE <<"u", "n", "c", "h", "e", "c", "k", "e", "d">>)
    ELSE origin.state.value

\* C3: every buffered input record, whichever sub-detector built it, whose
\* field is sensitive (by kind, autocomplete hint, name or id, or a pattern
\* of the caller) or whose raw value is shaped like a card number or an SSN
\* has value '[SANITIZED]' and isSanitized true, and so does not carry the
\* raw value.
C3_SanitizationNeverLeaks ==
    \A i \in 1..Len(getAll(buffer)) :
       LET action == getAll(buffer)[i]
           origin == hist[i]
       IN (/\ action.type = "input"
           /\ \/ shouldSanitize(origin.field, config.sanitize)
              \/ containsSensitiveData(RawValue(origin)))
          => /\ action.value = SANITIZED
             /\ action.isSanitized
             /\ action.value # RawValue(origin)

\* C24: every input record in the buffer has inputType 'change' or 'blur':
\* the input and focus events of a field, on which no handler is registered,
\* add nothing.
C24_OnlyChangeAndBlur ==
    \A i \in 1..Len(getAll(buffer)) :
       getAll(buffer)[i].type = "input"
          => getAll(buffer)[i].inputType \in {"change", "blur"}

\* Text tracking is running and has recorded both a change and a blur of a
\* text field.
C24_Witness ==
    /\ isRunning
    /\ TextHandlers(listeners, "change") > 0
    /\ Len(getAll(buffer)) = 2
    /\ getAll(buffer)[1].inputType = "change"
    /\ getAll(buffer)[2].inputType = "blur"
    /\ IsTextTarget(hist[1].field)
    /\ IsTextTarget(hist[2].field)

\* The elements an event can have as its target, by what the three handlers
\* look at: the tag and, for an input element, its type.
TargetShapes ==
    [tag : {"input", "textarea", "select", "button", "div"},
     type : {"text", "password", "email", "hidden", "checkbox", "radio", "submit",
             "select-one", "textarea", ""}]

\* The sub-detectors that go on with target.
Accepting(target) ==
    {d \in {"text", "checkbox", "select"} :
        \/ d = "text" /\ IsTextTarget(target)
        \/ d = "checkbox" /\ IsCheckboxTarget(target)
        \/ d = "select" /\ IsSelectTarget(target)}

\* C37: with text, checkbox and select tracking all on, one change or blur
\* event on one element adds at most one input record: no element is
\* accepted by two of the three sub-detectors, and each has one handler per
\* event.
C37_OneRecordPerInputEvent ==
    /\ [](/\ \A target \in TargetShapes : Cardinality(Accepting(target)) <= 1
          /\ \A f \in document : Cardinality(Accepting(f.el)) <= 1)
    /\ [][InputEvent => nAdded' <= nAdded + 1]_vars

\* All three sub-detectors are on and each of the two records in the buffer
\* came from one event: a change of a checkbox, then a change of a select.
C37_Witness ==
    /\ config.trackInputs = TrackAll
    /\ isRunning
    /\ listeners["change.text"] = 1
    /\ listeners["change.checkbox"] = 1
    /\ listeners["change.select"] = 1
    /\ nAdded = 2
    /\ Len(getAll(buffer)) = 2
    /\ IsCheckboxTarget(hist[1].field)
    /\ IsSelectTarget(hist[2].field)

\* The value the previous record of the same element recorded, '' when the
\* buffer holds no earlier record of it; i indexes the buffer (and hist).
PreviousRecorded(i) ==
    LET same == {j \in 1..(i - 1) : hist[j] # NoOrigin /\ hist[j].field = hist[i].field}
    IN IF same = {} THEN <<>>
       ELSE hist[CHOOSE j \in same : \A k \in same : k <= j].state.value

\* C27: while the buffer holds every record added so far, a text-input
\* record has wasCleared true exactly when the previous record of the same
\* element recorded a non-empty value (no previous record counting as empty)
\* and the element's value is now empty.
C27_WasClearedByPreviousAction ==
    Len(getAll(buffer)) = nAdded =>
       \A i \in 1..Len(getAll(buffer)) :
          LET action == getAll(buffer)[i]
          IN (action.type = "input" /\ IsTextTarget(hist[i].field)) =>
                (action.wasCleared <=>
                    (Len(PreviousRecorded(i)) > 0 /\ Len(hist[i].state.value) = 0))

(***************************************************************************)
(* Claims about timestamps (SpecClock).                                     *)
(***************************************************************************)
\* C38: the clock never going back, the timestamps of the records
\* getActions() returns never decrease from one record to the next, also
\* when requests complete in another order than they were issued; and in
\* every report no action's timestamp is later than the capture instant, so
\* no relativeTime is computed from a negative difference.
C38_TimestampsOrdered ==
    /\ \A i \in 1..Len(getActions), j \in 1..Len(getActions) :
          i < j => getActions[i].timestamp <= getActions[j].timestamp
    /\ (ret.op = "capture" /\ ~HasThrown(ret.report)) =>
          \A i \in 1..Len(ret.report.actions) :
             ret.report.actions[i].timestamp <= ret.report.timestamp

\* The request issued first completed last, after the clock moved: the buffer
\* holds both records, with different timestamps, and a report of them was
\* captured.
C38_Witness ==
    /\ Len(getActions) = 2
    /\ getActions[1].type = "network"
    /\ getActions[2].type = "network"
    /\ getActions[1].timestamp < getActions[2].timestamp
    /\ pendingFetch = <<>>
    /\ ret.op = "capture"
    /\ ~HasThrown(ret.report)
    /\ Len(ret.report.actions) = 2
    /\ ret.report.actions[1].timestamp < ret.report.timestamp

(***************************************************************************)
(* Claims about two controllers in one browser (SpecPair).                  *)
(***************************************************************************)
HostEvents == {"click", "input", "navigation", "network", "console"}

\* Both controllers were started and then both stopped, in either order.
BothStartedBothStopped ==
    \E a \in Ids, b \in Ids, x \in Ids, y \in Ids :
       /\ a # b
       /\ x # y
       /\ hist = << <<"start", a>>, <<"start", b>>, <<"stop", x>>, <<"stop", y>> >>

\* C33: after two controllers were both started and then both stopped, in
\* either stop order, fetch, XMLHttpRequest open and send, history.pushState
\* and replaceState and console.error and console.warn run no wrapper any
\* more, and no later fetch, navigation or console call adds a record to
\* either buffer.
C33_GlobalsRestoredAfterBothStop ==
    BothStartedBothStopped =>
       /\ \A f \in Globals : patched[f] = Native
       /\ (ret.op \in HostEvents /\ ret.fresh) => ret.received = {}

\* Both controllers were started, in either order, and then x was stopped:
\* y is still Running.
OneStopped(x, y) ==
    \/ hist = << <<"start", x>>, <<"start", y>>, <<"stop", x>> >>
    \/ hist = << <<"start", y>>, <<"start", x>>, <<"stop", x>> >>

\* C34: with two controllers both Running, after one of them is stopped,
\* whichever was started first, every later click, input, navigation,
\* network and console action adds a record to the buffer of the other one,
\* and adds none to the buffer of the stopped one.
C34_OtherKeepsRecording ==
    \A x \in Ids, y \in Ids :
       (/\ x # y
        /\ OneStopped(x, y)
        /\ ret.op \in HostEvents
        /\ ret.fresh
        /\ ret.moved)
       => ret.received = {y}

(***************************************************************************)
(* Claims about element identifiers (SpecIdentifier, SpecPath).             *)
(***************************************************************************)
\* The rules, highest priority first, and whether a rule matches an element.
Rules == <<"id", "data-testid", "data-component", "data-test", "data-cy", "text",
           "aria-label", "name", "class", "path">>
RuleMatches(element, rule) ==
    CASE rule = "id" -> element.chain[1].id # ""
      [] rule = "data-testid" -> element.testid # ""
      [] rule = "data-component" -> element.hasDataset /\ element.component # ""
      [] rule = "data-test" -> element.hasDataset /\ element.test # ""
      [] rule = "data-cy" -> element.hasDataset /\ element.cy # ""
      [] rule = "text" -> /\ element.chain[1].tagName \in Interactive
                          /\ \E i \in 1..Len(element.textContent) :
                                ~IsSpace(element.textContent[i])
      [] rule = "aria-label" -> element.ariaLabel # <<>>
      [] rule = "name" -> element.name # ""
      [] rule = "class" -> \E i \in 1..Len(element.className) :
                              ~IsSpace(element.className[i])
      [] rule = "path" -> TRUE
FirstMatching(element) ==
    Rules[CHOOSE i \in 1..Len(Rules) :
             /\ RuleMatches(element, Rules[i])
             /\ \A j \in 1..(i - 1) : ~RuleMatches(element, Rules[j])]

\* The rule an identifier has the form of.
RuleOf(identifier) ==
    IF Len(identifier) = 1 THEN "path"
    ELSE CASE identifier[2] = "#" -> "id"
           [] identifier[2] = "[data-testid=\"" -> "data-testid"
           [] identifier[2] = "[data-component=\"" -> "data-component"
           [] identifier[2] = "[data-test=\"" -> "data-test"
           [] identifier[2] = "[data-cy=\"" -> "data-cy"
           [] identifier[2] = " \"" -> "text"
           [] identifier[2] = "[aria-label=\"" -> "aria-label"
           [] identifier[2] = "[name=\"" -> "name"
           [] identifier[2] = "." -> "class"
           [] OTHER -> "path"

\* The value an identifier of the form of `rule` carries, between the tag
\* and the closing piece.
Carried(identifier, rule) ==
    IF rule = "path" THEN identifier
    ELSE IF rule \in {"id", "class"} THEN SubSeq(identifier, 3, Len(identifier))
    ELSE SubSeq(identifier, 3, Len(identifier) - 1)

\* C31: for every combination of id, data-testid, data-component, data-test,
\* data-cy, text, aria-label, name and class, present or absent, the
\* identifier has the form and the value of the highest-priority rule that
\* matches the element (the text rule matching buttons, links and labels
\* only, the class rule giving the first two classes, the path only when no
\* other rule matches), and the result has a text exactly when the text rule
\* produced the identifier.
C31_FirstMatchingRuleWins ==
    ret.op = "getElementIdentifier" =>
       LET element == ret.element
           rule == FirstMatching(element)
           identifier == ret.val.identifier
           tag == toLowerCase(element.chain[1].tagName)
       IN /\ identifier[1] = tag
          /\ RuleOf(identifier) = rule
          /\ Carried(identifier, rule) =
                CASE rule = "id" -> <<element.chain[1].id>>
                  [] rule = "data-testid" -> <<element.testid>>
                  [] rule = "data-component" -> <<element.component>>
                  [] rule = "data-test" -> <<element.test>>
                  [] rule = "data-cy" -> <<element.cy>>
                  [] rule = "text" -> Prefix(trim(element.textContent), TextLimit)
                  [] rule = "aria-label" -> Prefix(element.ariaLabel, TextLimit)
                  [] rule = "name" -> <<element.name>>
                  [] rule = "class" ->
                        join(Prefix(split(trim(element.className)), ClassLimit), ".")
                  [] rule = "path" -> <<tag>>
          /\ ("text" \in DOMAIN ret.val) = (rule = "text")
          /\ rule = "text" => ret.val.text = Carried(identifier, rule)

\* A button with text, aria-label, name and classes and neither id nor data
\* attribute: the text rule produced the identifier.
C31_Witness ==
    /\ ret.op = "getElementIdentifier"
    /\ ret.element.chain[1].tagName = "BUTTON"
    /\ ret.element.chain[1].id = ""
    /\ ret.element.testid = ""
    /\ ret.element.ariaLabel # <<>>
    /\ ret.element.name # ""
    /\ ret.element.className # <<>>
    /\ ret.val = [text |-> <<"O", "K">>,
                  identifier |-> <<"button", " \"", "O", "K", "\"">>]

\* The levels of a chain below the document body (all of them in a detached
\* tree), and the nearest of the first PathLimit of them that has an id
\* (0: none of them has).
BelowBody(chain) ==
    IF \E i \in 1..Len(chain) : chain[i].isBody
    THEN (CHOOSE i \in 1..Len(chain) : chain[i].isBody) - 1
    ELSE Len(chain)
NearestWithId(chain) ==
    LET within == {i \in 1..Min(BelowBody(chain), PathLimit) : chain[i].id # ""}
    IN IF within = {} THEN 0
       ELSE CHOOSE i \in within : \A j \in within : i <= j

C32_RecordedUrlSanitized ==
    (ret.op = "fetch" /\ getAll(buffer) # <<>>) =>
       LET recorded == getAll(buffer)[1].url
           requested == ret.url
           pieces == {recorded[i] : i \in 1..Len(recorded)}
       IN /\ recorded[1] = requested.path
          /\ "//" \notin pieces
          /\ "#" \notin pieces
          /\ \A k \in 1..Len(requested.query) :
                requested.query[k][1] \in sensitiveParams =>
                   ~\E i \in 1..(Len(recorded) - 2) :
                       /\ recorded[i] = requested.query[k][1]
                       /\ recorded[i + 1] = "="
                       /\ recorded[i + 2] = requested.query[k][2]

=============================================================================
